---- MODULE Spec2Model ----
(***************************************************************************)
(* Verification model of the HONEST truth/coherence pipeline:              *)
(*   HONEST_CORE.ts   feed verification, consensus aggregation and the     *)
(*                    agreement score of the feeds                         *)
(*   App.tsx          the HONEST-LEDGER record functions                   *)
(*   websockets.ts    the normalizer calculateDimensions, weighted         *)
(*                    coherence and the momentum-gated decision            *)
(*   oracle module    the normalizer calculateEigenstate, alignment        *)
(*                    coherence and the coherence-only decision            *)
(*                                                                         *)
(* JavaScript values are modelled as tagged records of one shape           *)
(*   [t, k, n, s]   t: typeof, k: number kind (fin, nan, inf, ninf),       *)
(*                  n: the finite value, s: the string value               *)
(* so that NaN, the infinities, undefined and the empty string are values  *)
(* the model can hand to the functions just as a caller can.               *)
(***************************************************************************)
EXTENDS Integers, Sequences, FiniteSets, TLC

VARIABLES
    now,           \* the clock, Date.now()
    feed,          \* the feed handed to verifyOracleFeed
    feedValid,     \* what verifyOracleFeed returned
    inputs,        \* metric.inputs
    metricResult,  \* the outcome of calculateHonestMetric(metric)
    coherenceResult, \* what calculateCoherence(metric.inputs) of HONEST-CORE returned
    record,        \* a HonestRecord, as created and possibly changed since
    tampered,      \* the field of record changed after its creation, or "none"
    recordValid,   \* what verifyHonestRecord(record) returned
    json,          \* the JSON text exported from record, possibly edited since
    edited,        \* the edit made to the JSON text, or "none"
    imported,      \* what importRecordFromJSON(json) returned
    dimensions,    \* the six eigenstate dimensions, in thousandths
    wsCoherence,   \* MarketDataWebSocketServer.calculateCoherence(dimensions)
    wsDecision,    \* MarketDataWebSocketServer.determineDecision(coherence, dimensions)
    oracleCoherence, \* calculateCoherence(dimensions) of the oracle module
    oracleDecision, \* getDecision(coherence) of the oracle module
    marketData,    \* the raw market snapshot handed to the two normalizers
    wsDimensions,  \* MarketDataWebSocketServer.calculateDimensions(marketData)
    oracleDimensions, \* calculateEigenstate(price, volume, priceChange, marketCap)
    eigenstateCache, \* the router's Map from upper-cased asset to cached entry
    calls,         \* the eigenstate.get calls and getMultiple items, and where each stands
    oracle,        \* per call, the getEigenstateFromOracle promise, its child and its timer
    crashed,       \* the server process died of an uncaught exception
    engine,        \* MultiSensoryEngine: config, lastCoherence, isHapticInitialized
    hapticBoard,   \* HONESTHapticControlBoard: isSupported, isPlaying, intervalId, ...
    voiceEngine,   \* VoiceEngine: autoNarrate, and whether speak was called since stop
    audioEngine,   \* AudioEngine: currentOscillator, isPlaying, currentFrequency, oscillators
    webAudioEngine \* WebAudioEngine: isPlaying

feedVars == <<feed, feedValid, inputs, metricResult, coherenceResult>>
ledgerVars == <<record, tampered, recordValid, json, edited, imported>>
eigenVars == <<dimensions, wsCoherence, wsDecision, oracleCoherence, oracleDecision>>
normalizeVars == <<marketData, wsDimensions, oracleDimensions>>
routerVars == <<eigenstateCache, calls, oracle, crashed>>
sensoryVars == <<engine, hapticBoard, voiceEngine, audioEngine, webAudioEngine>>
restVars == <<routerVars, sensoryVars>>
vars == <<now, feedVars, ledgerVars, eigenVars, normalizeVars, restVars>>

-----------------------------------------------------------------------------
(* JavaScript values *)

JsNum(i) == [t |-> "number", k |-> "fin", n |-> i, s |-> ""]
JsNaN == [t |-> "number", k |-> "nan", n |-> 0, s |-> ""]
JsInf == [t |-> "number", k |-> "inf", n |-> 0, s |-> ""]
JsNegInf == [t |-> "number", k |-> "ninf", n |-> 0, s |-> ""]
JsStr(str) == [t |-> "string", k |-> "", n |-> 0, s |-> str]
JsUndefined == [t |-> "undefined", k |-> "", n |-> 0, s |-> ""]

IsFinite(v) == v.t = "number" /\ v.k = "fin"

\* a > b on numbers: every comparison with NaN is false
JsGt(a, b) ==
    /\ a.t = "number" /\ b.t = "number"
    /\ a.k # "nan" /\ b.k # "nan"
    /\ \/ a.k = "inf" /\ b.k # "inf"
       \/ b.k = "ninf" /\ a.k # "ninf"
       \/ a.k = "fin" /\ b.k = "fin" /\ a.n > b.n

\* a + b on numbers
JsAdd(a, b) ==
    IF a.k = "nan" \/ b.k = "nan" THEN JsNaN
    ELSE IF a.k = "fin" /\ b.k = "fin" THEN JsNum(a.n + b.n)
    ELSE IF a.k = "fin" THEN b
    ELSE IF b.k = "fin" THEN a
    ELSE IF a.k = b.k THEN a
    ELSE JsNaN

-----------------------------------------------------------------------------
(* HONEST-CORE: verifyOracleFeed *)

FRESHNESS_MS == 60000

\* (now - feed.timestamp) < 60000
isRecent(f, clock) == (clock - f.timestamp) < FRESHNESS_MS

\* typeof feed.value === 'number' && feed.value > 0
isPositiveNumber(f) == f.value.t = "number" /\ JsGt(f.value, JsNum(0))

\* typeof x === 'string' && x.length > 0, for source, asset and metric
hasRequiredFields(f) ==
    /\ f.source.t = "string" /\ Len(f.source.s) > 0
    /\ f.asset.t = "string" /\ Len(f.asset.s) > 0
    /\ f.metric.t = "string" /\ Len(f.metric.s) > 0

verifyOracleFeed(f, clock) ==
    isRecent(f, clock) /\ isPositiveNumber(f) /\ hasRequiredFields(f)

-----------------------------------------------------------------------------
(* HONEST-CORE: calculateHonestMetric *)

\* Array.prototype.filter(feed => verifyOracleFeed(feed))
RECURSIVE filterVerified(_, _)
filterVerified(fs, clock) ==
    IF fs = <<>> THEN <<>>
    ELSE IF verifyOracleFeed(Head(fs), clock)
         THEN <<Head(fs)>> \o filterVerified(Tail(fs), clock)
         ELSE filterVerified(Tail(fs), clock)

\* feeds.map(feed => feed.value)
mapValues(fs) == [i \in 1..Len(fs) |-> fs[i].value]

\* insertion of v into an ascending sequence, after the elements it does not precede
RECURSIVE insertAscending(_, _)
insertAscending(v, sorted) ==
    IF sorted = <<>> THEN <<v>>
    ELSE IF JsGt(Head(sorted), v) THEN <<v>> \o sorted
    ELSE <<Head(sorted)>> \o insertAscending(v, Tail(sorted))

\* values.sort((a, b) => a - b)
RECURSIVE sortAscending(_)
sortAscending(vs) ==
    IF vs = <<>> THEN <<>>
    ELSE insertAscending(vs[Len(vs)], sortAscending(SubSeq(vs, 1, Len(vs) - 1)))

\* values[Math.floor(values.length / 2)], with the array indexed from 0
medianIndex(values) == (Len(values) \div 2) + 1

Returned(v) == [kind |-> "return", value |-> v, error |-> ""]
Thrown(name) == [kind |-> "throw", value |-> JsUndefined, error |-> name]
NotCalled == [kind |-> "none", value |-> JsUndefined, error |-> ""]

\* calculateHonestMetric without its throw: 0 when no feed verifies
calculateHonestMetricNoThrow(fs, clock) ==
    IF Len(fs) = 0 THEN Returned(JsNum(0))
    ELSE LET verifiedFeeds == filterVerified(fs, clock)
             values == sortAscending(mapValues(verifiedFeeds))
         IN  IF Len(verifiedFeeds) = 0 THEN Returned(JsNum(0))
             ELSE IF Len(verifiedFeeds) = 1 THEN Returned(verifiedFeeds[1].value)
             ELSE Returned(values[medianIndex(values)])

\* calculateHonestMetric taking the middle value of all the inputs once one of
\* them verifies
calculateHonestMetricAllFeeds(fs, clock) ==
    IF Len(fs) = 0 THEN Returned(JsNum(0))
    ELSE LET verifiedFeeds == filterVerified(fs, clock)
             values == sortAscending(mapValues(fs))
         IN  IF Len(verifiedFeeds) = 0 THEN Thrown("Error")
             ELSE IF Len(fs) = 1 THEN Returned(fs[1].value)
             ELSE Returned(values[medianIndex(values)])

\* calculateHonestMetric returning the largest verified value
calculateHonestMetricLargest(fs, clock) ==
    IF Len(fs) = 0 THEN Returned(JsNum(0))
    ELSE LET verifiedFeeds == filterVerified(fs, clock)
             values == sortAscending(mapValues(verifiedFeeds))
         IN  IF Len(verifiedFeeds) = 0 THEN Thrown("Error")
             ELSE IF Len(verifiedFeeds) = 1 THEN Returned(verifiedFeeds[1].value)
             ELSE Returned(values[Len(values)])

calculateHonestMetric(fs, clock) ==
    IF Len(fs) = 0 THEN Returned(JsNum(0))
    ELSE LET verifiedFeeds == filterVerified(fs, clock)
             values == sortAscending(mapValues(verifiedFeeds))
         IN  IF Len(verifiedFeeds) = 0 THEN Thrown("Error")
             ELSE IF Len(verifiedFeeds) = 1 THEN Returned(verifiedFeeds[1].value)
             ELSE Returned(values[medianIndex(values)])

-----------------------------------------------------------------------------
(* HONEST-LEDGER: JSON.stringify of the canonical object, and hashString.  *)
(* A string is the sequence of its UTF-16 code units, as charCodeAt reads  *)
(* it; the numbers of the records are integers.                            *)

JsNull == [t |-> "object", k |-> "null", n |-> 0, s |-> ""]
JsArr(items) == [t |-> "object", k |-> "array", n |-> 0, s |-> "", a |-> items]

K_metricId == <<109, 101, 116, 114, 105, 99, 73, 100>>
K_metricValue == <<109, 101, 116, 114, 105, 99, 86, 97, 108, 117, 101>>
K_audioFrequency == <<97, 117, 100, 105, 111, 70, 114, 101, 113, 117, 101, 110, 99, 121>>
K_hapticIntensity == <<104, 97, 112, 116, 105, 99, 73, 110, 116, 101, 110, 115, 105, 116, 121>>
K_visualColor == <<118, 105, 115, 117, 97, 108, 67, 111, 108, 111, 114>>
K_timestamp == <<116, 105, 109, 101, 115, 116, 97, 109, 112>>
K_coherence == <<99, 111, 104, 101, 114, 101, 110, 99, 101>>
K_exhaustion == <<101, 120, 104, 97, 117, 115, 116, 105, 111, 110>>
K_sources == <<115, 111, 117, 114, 99, 101, 115>>

RECURSIVE decimalDigits(_)
decimalDigits(i) ==
    IF i < 10 THEN <<48 + i>> ELSE decimalDigits(i \div 10) \o <<48 + (i % 10)>>

\* the decimal text JSON.stringify gives an integer
numberToString(i) == IF i < 0 THEN <<45>> \o decimalDigits(-i) ELSE decimalDigits(i)

\* a string between double quotes, with " and \ escaped
RECURSIVE escapeString(_)
escapeString(str) ==
    IF str = <<>> THEN <<>>
    ELSE (IF Head(str) \in {34, 92} THEN <<92, Head(str)>> ELSE <<Head(str)>>)
             \o escapeString(Tail(str))

quoteString(str) == <<34>> \o escapeString(str) \o <<34>>

RECURSIVE joinComma(_)
joinComma(parts) ==
    IF parts = <<>> THEN <<>>
    ELSE IF Len(parts) = 1 THEN parts[1]
    ELSE parts[1] \o <<44>> \o joinComma(Tail(parts))

\* JSON.stringify of a property value: NaN and the infinities become null, an
\* undefined array element becomes null
stringifyValue(v) ==
    IF v.t = "number" THEN (IF v.k = "fin" THEN numberToString(v.n) ELSE <<110, 117, 108, 108>>)
    ELSE IF v.t = "string" THEN quoteString(v.s)
    ELSE IF v.t = "object" /\ v.k = "array"
         THEN <<91>> \o joinComma([i \in 1..Len(v.a) |-> quoteString(v.a[i])]) \o <<93>>
    ELSE <<110, 117, 108, 108>>

\* the members of an object literal that JSON.stringify writes: a property whose
\* value is undefined is left out
RECURSIVE stringifyMembers(_)
stringifyMembers(props) ==
    IF props = <<>> THEN <<>>
    ELSE (IF Head(props)[2].t = "undefined" THEN <<>>
          ELSE <<quoteString(Head(props)[1]) \o <<58>> \o stringifyValue(Head(props)[2])>>)
             \o stringifyMembers(Tail(props))

\* JSON.stringify(object) without indentation; props is the object literal, in its order
stringifyObject(props) == <<123>> \o joinComma(stringifyMembers(props)) \o <<125>>

\* a 32-bit integer as its two 16-bit halves (the two's complement bit pattern)
Int32Zero == [hi |-> 0, lo |-> 0]

\* hash = ((hash << 5) - hash) + char; hash |= 0
hashStep(hash, char) ==
    LET low == hash.lo * 31 + char
    IN  [lo |-> low % 65536, hi |-> (hash.hi * 31 + (low \div 65536)) % 65536]

\* for (i = 0; i < len; i++) over the code units first..last, left to right
\* (the range is halved, and the hash so far is read before the range is entered,
\* so that the evaluation does not nest once per character)
RECURSIVE hashLoop(_, _, _, _)
hashLoop(str, first, last, hash) ==
    IF first > last \/ hash.hi < 0 THEN hash
    ELSE IF first = last THEN hashStep(hash, str[first])
    ELSE LET mid == (first + last) \div 2
         IN  hashLoop(str, mid + 1, last, hashLoop(str, first, mid, hash))

\* Math.abs of a 32-bit integer: a set sign bit negates the pattern (2^31 for -2^31)
absInt32(hash) ==
    IF hash.hi < 32768 THEN hash
    ELSE [lo |-> (65536 - hash.lo) % 65536,
          hi |-> (65536 - hash.hi - (IF hash.lo = 0 THEN 0 ELSE 1)) % 65536]

hexDigit(d) == IF d < 10 THEN 48 + d ELSE 87 + d

hex4(x) ==
    <<hexDigit(x \div 4096), hexDigit((x \div 256) % 16), hexDigit((x \div 16) % 16),
      hexDigit(x % 16)>>

\* Math.abs(hash).toString(16).padStart(8, '0')
hashString(str) ==
    LET magnitude == absInt32(hashLoop(str, 1, Len(str), Int32Zero))
    IN  hex4(magnitude.hi) \o hex4(magnitude.lo)

-----------------------------------------------------------------------------
(* HONEST-LEDGER: createHonestRecord, verifyHonestRecord *)

SensoryTranslation(af, hi, vc, vp, et, ev) ==
    [t |-> "object", k |-> "record", audioFrequency |-> af, hapticIntensity |-> hi, visualColor |-> vc,
     visualPulse |-> vp, exhaustionTone |-> et, exhaustionVibration |-> ev]

\* createHonestRecord hashing the canonical string of HONEST-LEDGER v1.0 (metricId,
\* metricValue, audioFrequency, timestamp) while verifyHonestRecord hashes all nine
createHonestRecordLegacyHash(metricId, metricValue, translation, coherence, exhaustion, sources, clock) ==
    LET timestamp == JsNum(clock)
        dataString == stringifyObject(<<
            <<K_metricId, metricId>>,
            <<K_metricValue, metricValue>>,
            <<K_audioFrequency, translation.audioFrequency>>,
            <<K_timestamp, timestamp>> >>)
        recordHash == JsStr(hashString(dataString))
    IN  [metricId |-> metricId,
         metricValue |-> metricValue,
         translation |-> translation,
         timestamp |-> timestamp,
         recordHash |-> recordHash,
         coherence |-> coherence,
         exhaustion |-> exhaustion,
         sources |-> sources]

createHonestRecord(metricId, metricValue, translation, coherence, exhaustion, sources, clock) ==
    LET timestamp == JsNum(clock)
        dataString == stringifyObject(<<
            <<K_metricId, metricId>>,
            <<K_metricValue, metricValue>>,
            <<K_audioFrequency, translation.audioFrequency>>,
            <<K_hapticIntensity, translation.hapticIntensity>>,
            <<K_visualColor, translation.visualColor>>,
            <<K_timestamp, timestamp>>,
            <<K_coherence, coherence>>,
            <<K_exhaustion, exhaustion>>,
            <<K_sources, sources>> >>)
        recordHash == JsStr(hashString(dataString))
    IN  [metricId |-> metricId,
         metricValue |-> metricValue,
         translation |-> translation,
         timestamp |-> timestamp,
         recordHash |-> recordHash,
         coherence |-> coherence,
         exhaustion |-> exhaustion,
         sources |-> sources]

verifyHonestRecord(r) ==
    LET dataString == stringifyObject(<<
            <<K_metricId, r.metricId>>,
            <<K_metricValue, r.metricValue>>,
            <<K_audioFrequency, r.translation.audioFrequency>>,
            <<K_hapticIntensity, r.translation.hapticIntensity>>,
            <<K_visualColor, r.translation.visualColor>>,
            <<K_timestamp, r.timestamp>>,
            <<K_coherence, r.coherence>>,
            <<K_exhaustion, r.exhaustion>>,
            <<K_sources, r.sources>> >>)
        computedHash == JsStr(hashString(dataString))
    IN  computedHash = r.recordHash

-----------------------------------------------------------------------------
(* HONEST-LEDGER: exportRecordToJSON, importRecordFromJSON.                *)
(* The JSON text is modelled by the document it denotes: an object whose   *)
(* members are JSON values (number, string, null, array, object) or are    *)
(* absent. JSON has no undefined, NaN or Infinity.                         *)

JNumber(i) == [j |-> "number", n |-> i]
JString(str) == [j |-> "string", s |-> str]
JNull == [j |-> "null"]
JArray(items) == [j |-> "array", a |-> items]
JAbsent == [j |-> "absent"]

\* what JSON.stringify writes for a property: nothing for undefined, null for
\* NaN and the infinities
toJSONValue(v) ==
    IF v.t = "undefined" THEN JAbsent
    ELSE IF v.t = "number" THEN (IF v.k = "fin" THEN JNumber(v.n) ELSE JNull)
    ELSE IF v.t = "string" THEN JString(v.s)
    ELSE IF v.t = "object" /\ v.k = "array" THEN JArray(v.a)
    ELSE JNull

\* what reading a property of the JSON.parse result gives: undefined for an
\* absent member
fromJSONValue(m) ==
    IF m.j = "absent" THEN JsUndefined
    ELSE IF m.j = "number" THEN JsNum(m.n)
    ELSE IF m.j = "string" THEN JsStr(m.s)
    ELSE IF m.j = "array" THEN JsArr(m.a)
    ELSE JsNull

\* JSON.stringify(record, null, 2)
exportRecordToJSON(r) ==
    [metricId |-> toJSONValue(r.metricId),
     metricValue |-> toJSONValue(r.metricValue),
     translation |->
        [j |-> "object",
         audioFrequency |-> toJSONValue(r.translation.audioFrequency),
         hapticIntensity |-> toJSONValue(r.translation.hapticIntensity),
         visualColor |-> toJSONValue(r.translation.visualColor),
         visualPulse |-> toJSONValue(r.translation.visualPulse),
         exhaustionTone |-> toJSONValue(r.translation.exhaustionTone),
         exhaustionVibration |-> toJSONValue(r.translation.exhaustionVibration)],
     timestamp |-> toJSONValue(r.timestamp),
     recordHash |-> toJSONValue(r.recordHash),
     coherence |-> toJSONValue(r.coherence),
     exhaustion |-> toJSONValue(r.exhaustion),
     sources |-> toJSONValue(r.sources)]

\* the translation property of the parsed object: an object, or a value whose
\* properties all read undefined (a member that is absent or null is falsy)
parseTranslation(m) ==
    IF m.j = "object"
    THEN SensoryTranslation(fromJSONValue(m.audioFrequency),
                            fromJSONValue(m.hapticIntensity),
                            fromJSONValue(m.visualColor),
                            fromJSONValue(m.visualPulse),
                            fromJSONValue(m.exhaustionTone),
                            fromJSONValue(m.exhaustionVibration))
    ELSE [fromJSONValue(m) EXCEPT !.k = IF m.j \in {"absent", "null"} THEN @ ELSE "record"]
             @@ [audioFrequency |-> JsUndefined, hapticIntensity |-> JsUndefined,
                 visualColor |-> JsUndefined, visualPulse |-> JsUndefined,
                 exhaustionTone |-> JsUndefined, exhaustionVibration |-> JsUndefined]

\* JSON.parse(jsonString) as HonestRecord
JSONparse(doc) ==
    [metricId |-> fromJSONValue(doc.metricId),
     metricValue |-> fromJSONValue(doc.metricValue),
     translation |-> parseTranslation(doc.translation),
     timestamp |-> fromJSONValue(doc.timestamp),
     recordHash |-> fromJSONValue(doc.recordHash),
     coherence |-> fromJSONValue(doc.coherence),
     exhaustion |-> fromJSONValue(doc.exhaustion),
     sources |-> fromJSONValue(doc.sources)]

\* !v : undefined, null, 0, NaN and the empty string are falsy
falsy(v) ==
    \/ v.t = "undefined"
    \/ v.t = "object" /\ v.k = "null"
    \/ v.t = "number" /\ (v.k = "nan" \/ (v.k = "fin" /\ v.n = 0))
    \/ v.t = "string" /\ Len(v.s) = 0

\* a text that is not JSON
Malformed == [j |-> "malformed"]

\* the text denotes an object
isObjectText(doc) == "j" \notin DOMAIN doc

\* the members of the parsed value are read: reading a member of null throws,
\* a number, a string and an array have none of the members
requiredMissing(doc) ==
    \/ ~isObjectText(doc)
    \/ falsy(JSONparse(doc).metricId) \/ falsy(JSONparse(doc).metricValue)
    \/ falsy(JSONparse(doc).translation) \/ falsy(JSONparse(doc).timestamp)
    \/ falsy(JSONparse(doc).recordHash)

\* importRecordFromJSON without the integrity check
importRecordFromJSONUnverified(doc) ==
    IF doc = Malformed \/ doc = JNull THEN Returned(JsNull)
    ELSE IF requiredMissing(doc) THEN Returned(JsNull)
    ELSE Returned(JSONparse(doc))

\* importRecordFromJSON without its catch clause: the body of the try block
importRecordFromJSONNoCatch(doc) ==
    IF doc = Malformed THEN Thrown("SyntaxError")
    ELSE IF doc = JNull THEN Thrown("TypeError")
    ELSE IF requiredMissing(doc) THEN Returned(JsNull)
    ELSE IF ~verifyHonestRecord(JSONparse(doc)) THEN Returned(JsNull)
    ELSE Returned(JSONparse(doc))

\* importRecordFromJSON: JSON.parse throws a SyntaxError on a text that is not
\* JSON and reading record.metricId throws a TypeError when the text is null;
\* the catch clause turns both into the return of null
importRecordFromJSON(doc) ==
    LET thrown == doc = Malformed \/ doc = JNull
    IN  IF thrown THEN Returned(JsNull)
        ELSE IF requiredMissing(doc) THEN Returned(JsNull)
        ELSE IF ~verifyHonestRecord(JSONparse(doc)) THEN Returned(JsNull)
        ELSE Returned(JSONparse(doc))

-----------------------------------------------------------------------------
(* Coherence and decision. A dimension is an integer number of thousandths *)
(* (0.9 is 900); a coherence is an integer number of hundred-thousandths   *)
(* (0.5 is 50000), so that weight * dimension is exact with the weights in *)
(* hundredths.                                                             *)

Dimensions(p, v, m, s, t, x) ==
    [price |-> p, volume |-> v, momentum |-> m, sentiment |-> s, temporal |-> t,
     spatial |-> x]

Max(a, b) == IF a >= b THEN a ELSE b
Min(a, b) == IF a <= b THEN a ELSE b

\* the weights of MarketDataWebSocketServer.calculateCoherence, in hundredths
weights ==
    [price |-> 25, volume |-> 15, momentum |-> 25, sentiment |-> 15, temporal |-> 10,
     spatial |-> 10]

\* calculateCoherence with the weights of volume and momentum exchanged
wsCalculateCoherenceSwapped(d) ==
    LET c6 == d.price * weights.price + d.volume * weights.momentum
                + d.momentum * weights.volume + d.sentiment * weights.sentiment
                + d.temporal * weights.temporal + d.spatial * weights.spatial
    IN  Max(-100000, Min(100000, c6))

\* MarketDataWebSocketServer.calculateCoherence
wsCalculateCoherence(d) ==
    LET c0 == 0
        c1 == c0 + d.price * weights.price
        c2 == c1 + d.volume * weights.volume
        c3 == c2 + d.momentum * weights.momentum
        c4 == c3 + d.sentiment * weights.sentiment
        c5 == c4 + d.temporal * weights.temporal
        c6 == c5 + d.spatial * weights.spatial
    IN  Max(-100000, Min(100000, c6))

WS_COHERENCE_THRESHOLD == 50000
WS_MOMENTUM_THRESHOLD == 300

\* determineDecision with inclusive comparisons
determineDecisionInclusive(coherence, d) ==
    IF coherence >= WS_COHERENCE_THRESHOLD /\ d.momentum >= WS_MOMENTUM_THRESHOLD THEN "BUY"
    ELSE IF coherence <= -WS_COHERENCE_THRESHOLD /\ d.momentum <= -WS_MOMENTUM_THRESHOLD
         THEN "SELL"
    ELSE "HOLD"

\* MarketDataWebSocketServer.determineDecision
determineDecision(coherence, d) ==
    IF coherence > WS_COHERENCE_THRESHOLD /\ d.momentum > WS_MOMENTUM_THRESHOLD THEN "BUY"
    ELSE IF coherence < -WS_COHERENCE_THRESHOLD /\ d.momentum < -WS_MOMENTUM_THRESHOLD
         THEN "SELL"
    ELSE "HOLD"

\* the largest r in lo..hi with r * r <= n (lo * lo <= n is given)
RECURSIVE sqrtFloor(_, _, _)
sqrtFloor(n, lo, hi) ==
    IF lo >= hi THEN lo
    ELSE LET mid == (lo + hi + 1) \div 2
         IN  IF mid * mid <= n THEN sqrtFloor(n, mid, hi) ELSE sqrtFloor(n, lo, mid - 1)

\* Object.values(dimensions)
dimensionValues(d) == <<d.price, d.volume, d.momentum, d.sentiment, d.temporal, d.spatial>>

RECURSIVE sumSeq(_)
sumSeq(vs) == IF vs = <<>> THEN 0 ELSE Head(vs) + sumSeq(Tail(vs))

\* calculateCoherence of the oracle module. With S the sum of the six values,
\* mean = S / 6 and variance = sum (6 b - S)^2 / 216, so that
\* stdDev * 2 = sqrt(sum (6 b - S)^2 / 54) thousandths; Math.min(stdDev * 2, 1)
\* is taken in whole thousandths, rounded down, which leaves every comparison
\* of the result with a multiple of 0.001 as it is.
oracleCalculateCoherence(d) ==
    LET values == dimensionValues(d)
        total == sumSeq(values)
        squares == sumSeq([i \in 1..Len(values) |->
                              (6 * values[i] - total) * (6 * values[i] - total)])
        twiceStdDev == IF squares \div 54 >= 1000 * 1000 THEN 1000
                       ELSE sqrtFloor(squares \div 54, 0, 1000)
        coherence == 100 * (1000 - Min(twiceStdDev, 1000))
    IN  IF total >= 0 THEN coherence ELSE -coherence

ORACLE_COHERENCE_THRESHOLD == 50000

\* getDecision of the oracle module
getDecision(coherence) ==
    IF coherence > ORACLE_COHERENCE_THRESHOLD THEN "BUY"
    ELSE IF coherence < -ORACLE_COHERENCE_THRESHOLD THEN "SELL"
    ELSE "HOLD"

-----------------------------------------------------------------------------
(* HONEST-CORE: calculateCoherence. Its arithmetic is floating point: every *)
(* sum, difference, product, quotient and square root is rounded to the     *)
(* nearest representable number, ties to even, as IEEE 754 prescribes. The  *)
(* model keeps 15 significant bits where a double keeps 53, so that every   *)
(* intermediate integer fits 32 bits; a finite number is m * 2^e with       *)
(* m = 0 or 2^14 <= |m| < 2^15.                                             *)

RECURSIVE pow2(_)
pow2(k) == IF k = 0 THEN 1 ELSE 2 * pow2(k - 1)

\* the number of bits of n >= 0
RECURSIVE bitLength(_)
bitLength(n) == IF n = 0 THEN 0 ELSE 1 + bitLength(n \div 2)

Float(m, e) == [t |-> "number", k |-> "fin", m |-> m, e |-> e]
FloatNaN == [t |-> "number", k |-> "nan", m |-> 0, e |-> 0]

\* m * 2^e rounded to 15 significant bits, ties to even
roundFloat(m, e) ==
    LET a == IF m >= 0 THEN m ELSE -m
        sign == IF m >= 0 THEN 1 ELSE -1
        len == bitLength(a)
        drop == len - 15
        q == a \div pow2(drop)
        r == a % pow2(drop)
        half == pow2(drop - 1)
        up == r > half \/ (r = half /\ q % 2 = 1)
        rounded == IF up THEN q + 1 ELSE q
    IN  IF m = 0 THEN Float(0, 0)
        ELSE IF len <= 15 THEN Float(m * pow2(15 - len), e - (15 - len))
        ELSE IF rounded = 32768 THEN Float(sign * 16384, e + drop + 1)
        ELSE Float(sign * rounded, e + drop)

\* a + b: the mantissa of the larger exponent is aligned with the other one;
\* a number more than 16 binary places below the other one is below a quarter
\* of its last place and leaves it as it is
floatAdd(a, b) ==
    IF a.m = 0 THEN b
    ELSE IF b.m = 0 THEN a
    ELSE IF a.e - b.e > 16 THEN a
    ELSE IF b.e - a.e > 16 THEN b
    ELSE IF a.e >= b.e THEN roundFloat(a.m * pow2(a.e - b.e) + b.m, b.e)
    ELSE roundFloat(b.m * pow2(b.e - a.e) + a.m, a.e)

\* a - b
floatSub(a, b) == floatAdd(a, Float(-b.m, b.e))

\* a * b
floatMul(a, b) == roundFloat(a.m * b.m, a.e + b.e)

\* a / b for b # 0: 17 more quotient bits than the rounding keeps, the last
\* of them set when the division leaves a remainder
floatDiv(a, b) ==
    LET x == IF a.m >= 0 THEN a.m ELSE -a.m
        y == IF b.m >= 0 THEN b.m ELSE -b.m
        sign == IF (a.m >= 0) = (b.m >= 0) THEN 1 ELSE -1
        q == (x * 65536) \div y
        sticky == IF (x * 65536) % y = 0 THEN 0 ELSE 1
    IN  roundFloat(sign * (2 * q + sticky), a.e - b.e - 17)

\* Math.sqrt(a) for a >= 0: the root of the mantissa, scaled to 29 or 30 bits
\* with an even exponent, to the nearest integer
floatSqrt(a) ==
    LET k == IF (a.e - 14) % 2 = 0 THEN 14 ELSE 15
        scaled == a.m * pow2(k)
        s == sqrtFloor(scaled, 0, 46340)
        root == IF scaled - s * s > s THEN s + 1 ELSE s
    IN  IF a.m = 0 THEN a ELSE roundFloat(root, (a.e - k) \div 2)

\* a < b, false when one of them is NaN
floatLess(a, b) == a.k = "fin" /\ b.k = "fin" /\ floatSub(a, b).m < 0

\* a feed value as a floating-point number
toFloat(v) == IF IsFinite(v) THEN roundFloat(v.n, 0) ELSE FloatNaN

\* values.reduce((sum, v) => sum + v, 0), from position i on
RECURSIVE reduceSum(_, _, _)
reduceSum(values, i, sum) ==
    IF i > Len(values) \/ sum.k = "nan" THEN sum
    ELSE reduceSum(values, i + 1, floatAdd(sum, values[i]))

\* calculateCoherence of HONEST-CORE. A value that is not finite makes
\* v - mean, and with it the result, NaN; a zero mean gives 0 / 0 = NaN for a
\* zero deviation and Infinity, capped at 1.0 by Math.min, otherwise.
calculateCoherence(feeds) ==
    LET values == [i \in 1..Len(feeds) |-> toFloat(mapValues(feeds)[i])]
        count == roundFloat(Len(feeds), 0)
        mean == floatDiv(reduceSum(values, 1, Float(0, 0)), count)
        squares == [i \in 1..Len(values) |->
                       floatMul(floatSub(values[i], mean), floatSub(values[i], mean))]
        variance == floatDiv(reduceSum(squares, 1, Float(0, 0)), count)
        stdDev == floatSqrt(variance)
        normalizedStdDev == floatDiv(stdDev, mean)
        one == roundFloat(1, 0)
    IN  IF Len(feeds) <= 1 THEN one
        ELSE IF \E i \in 1..Len(values) : values[i].k = "nan" THEN FloatNaN
        ELSE IF mean.m = 0 THEN (IF stdDev.m = 0 THEN FloatNaN ELSE Float(0, 0))
        ELSE IF floatLess(normalizedStdDev, one) THEN floatSub(one, normalizedStdDev)
        ELSE floatSub(one, one)

-----------------------------------------------------------------------------
(* The two normalizers: calculateDimensions of the WebSocket server and     *)
(* calculateEigenstate of the oracle module. Prices are whole dollars,      *)
(* price changes whole percents, volumes and market caps whole millions of  *)
(* dollars, the clock milliseconds; angles are milliradians, and the values *)
(* of tanh, log10, sin and cos JavaScript numbers in thousandths.           *)

\* a / b rounded toward zero
truncDiv(a, b) == IF a >= 0 THEN a \div b ELSE -((-a) \div b)

\* v * num / den on a number
jsScale(v, num, den) == IF IsFinite(v) THEN JsNum(truncDiv(v.n * num, den)) ELSE v

\* Math.tanh(x): odd, 1 and -1 at the infinities, NaN for NaN; between the
\* values at 0, 0.5, ..., 4.5 it is interpolated, beyond 4.5 it is within
\* 0.0005 of 1
mathTanh(x) ==
    LET table == <<0, 462, 762, 905, 964, 987, 995, 998, 999, 1000>>
        a == IF x.n >= 0 THEN x.n ELSE -x.n
        i == (a \div 500) + 1
        y == IF a >= 4500 THEN 1000
             ELSE table[i] + ((table[i + 1] - table[i]) * (a % 500)) \div 500
    IN  IF x.t # "number" \/ x.k = "nan" THEN JsNaN
        ELSE IF x.k = "inf" THEN JsNum(1000)
        ELSE IF x.k = "ninf" THEN JsNum(-1000)
        ELSE IF x.n >= 0 THEN JsNum(y) ELSE JsNum(-y)

\* log10 of a positive whole number, to its leading digit
RECURSIVE log10Digits(_)
log10Digits(n) ==
    IF n >= 10 THEN 1000 + log10Digits(n \div 10)
    ELSE <<0, 301, 477, 602, 699, 778, 845, 903, 954>>[n]

\* Math.log10(v) of an amount v given in millions: NaN for a negative amount,
\* for NaN and for undefined, -Infinity for 0
mathLog10(v) ==
    IF v.t # "number" \/ v.k \in {"nan", "ninf"} THEN JsNaN
    ELSE IF v.k = "inf" THEN JsInf
    ELSE IF v.n < 0 THEN JsNaN
    ELSE IF v.n = 0 THEN JsNegInf
    ELSE JsNum(6000 + log10Digits(v.n))

\* Math.sin(x) for x >= 0: the argument is reduced modulo 2 pi, and a half
\* wave of y (pi - y) follows 16 y (pi - y) / (5 pi^2 - 4 y (pi - y))
mathSin(x) ==
    LET r == x % 6283
        y == IF r <= 3142 THEN r ELSE r - 3142
        arc == y * (3142 - y)
        half == (1000 * (arc \div 16)) \div ((5 * 3142 * 3142 - 4 * arc) \div 256)
    IN  IF r <= 3142 THEN half ELSE -half

\* Math.cos(x) = Math.sin(x + pi / 2)
mathCos(x) == mathSin(x + 1571)

MarketData(price, volume, change, cap) ==
    [price |-> price, volume_24h |-> volume, price_change_24h |-> change,
     market_cap |-> cap]

\* calculateDimensions of the WebSocket server
calculateDimensions(md, clock) ==
    LET priceNorm == mathTanh(jsScale(md.price_change_24h, 100, 1))
        volumeNorm == mathTanh(jsScale(mathLog10(md.volume_24h), 1, 10))
        momentum == priceNorm
        sentiment == jsScale(priceNorm, 8, 10)
        temporal == JsNum(truncDiv(mathSin(clock \div 10) * 5, 10))
        spatial == IF falsy(md.market_cap) THEN JsNum(0)
                   ELSE mathTanh(jsScale(mathLog10(md.market_cap), 1, 12))
    IN  Dimensions(priceNorm, volumeNorm, momentum, sentiment, temporal, spatial)

\* calculateEigenstate of the oracle module; marketCap is not read
calculateEigenstate(price, volume, priceChange, marketCap, clock) ==
    LET priceNorm == mathTanh(jsScale(price, 1, 50))
        volumeNorm == mathTanh(volume)
        momentumNorm == mathTanh(jsScale(priceChange, 100, 1))
        sentiment == jsScale(JsAdd(priceNorm, momentumNorm), 1, 2)
        temporal == JsNum(truncDiv(mathSin(clock \div 3600) * 3, 10))
        spatial == JsNum(truncDiv(mathCos(clock \div 3600) * 3, 10))
    IN  Dimensions(priceNorm, volumeNorm, momentumNorm, sentiment, temporal, spatial)

-----------------------------------------------------------------------------
(* Feeds handed to the verifier and the aggregator *)

ClockStart == 200000

Feed(src, ast, met, val, ts) ==
    [source |-> src, asset |-> ast, metric |-> met, value |-> val, timestamp |-> ts]

IdentifierValues == {JsStr(""), JsStr("cg"), JsUndefined}
FeedValues ==
    {JsNum(-5), JsNum(0), JsNum(1), JsNum(100), JsNaN, JsInf, JsNegInf, JsStr("7")}
FeedTimestamps ==
    {ClockStart - 120000, ClockStart - 60000, ClockStart - 59999, ClockStart,
     ClockStart + 1000}

\* every feed the verifier is tried on
FeedUniverse ==
    {Feed(a, b, c, v, ts) : a \in IdentifierValues, b \in IdentifierValues,
                            c \in IdentifierValues, v \in FeedValues,
                            ts \in FeedTimestamps}

GoodFeed(src, val) == Feed(JsStr(src), JsStr("BTC"), JsStr("price"), JsNum(val), ClockStart)

\* the feeds a metric's inputs are drawn from: four finite-valued sources that
\* verify (one of them the manipulated outlier), a stale one, one of value 0,
\* one without a source, one whose value is Infinity, and one of negative value
FeedPool ==
    {GoodFeed("a", 100), GoodFeed("b", 101), GoodFeed("c", 102), GoodFeed("d", 5000),
     Feed(JsStr("e"), JsStr("BTC"), JsStr("price"), JsNum(103), ClockStart - 120000),
     Feed(JsStr("f"), JsStr("BTC"), JsStr("price"), JsNum(0), ClockStart),
     Feed(JsStr(""), JsStr("BTC"), JsStr("price"), JsNum(104), ClockStart),
     Feed(JsStr("g"), JsStr("BTC"), JsStr("price"), JsInf, ClockStart),
     Feed(JsStr("h"), JsStr("BTC"), JsStr("price"), JsNum(-100), ClockStart)}

MaxFeeds == 4

\* how far above the largest value a replaced value is tried
OutlierStep == 5000

-----------------------------------------------------------------------------
(* Records handed to the ledger functions *)

Str_btc == <<98, 116, 99>>
Str_eth == <<101, 116, 104>>
Str_green == <<35, 48, 48, 102, 102, 56, 56>>
Str_red == <<35, 102, 102, 52, 55, 53, 55>>
Str_a == <<97>>
Str_b == <<98>>
Str_deadbeef == <<100, 101, 97, 100, 98, 101, 101, 102>>

MetricIds == {JsStr(Str_btc), JsStr(Str_eth)}
MetricValues == {JsNum(0), JsNum(1), JsNum(42)}
Translations ==
    {SensoryTranslation(JsNum(432), JsNum(0), JsStr(Str_green), JsNum(0),
                        JsUndefined, JsUndefined),
     SensoryTranslation(JsNum(440), JsNum(1), JsStr(Str_red), JsNum(1),
                        JsNum(216), JsNum(10))}
Coherences == {JsUndefined, JsNum(0), JsNum(1)}
Exhaustions == {JsUndefined, JsNum(1)}
SourceLists == {JsUndefined, JsArr(<<>>), JsArr(<<Str_a, Str_b>>)}

NoRecord == [metricId |-> JsUndefined]
NoJson == [metricId |-> JAbsent]
NotImported == [called |-> FALSE, kind |-> "none", value |-> JsNull]

\* the values a field of a stored record may be changed to
TamperValues(field) ==
    CASE field = "metricId" -> {JsStr(Str_btc), JsStr(Str_eth)}
      [] field = "metricValue" -> {JsNum(1), JsNum(2), JsNum(43)}
      [] field = "timestamp" -> {JsNum(ClockStart + 1)}
      [] field = "coherence" -> Coherences
      [] field = "exhaustion" -> Exhaustions \cup {JsNum(0)}
      [] field = "sources" -> {JsUndefined, JsArr(<<Str_a>>), JsArr(<<Str_a, Str_b>>)}
      [] field = "audioFrequency" -> {JsNum(432), JsNum(440)}
      [] field = "hapticIntensity" -> {JsNum(0), JsNum(1)}
      [] field = "visualColor" -> {JsStr(Str_green), JsStr(Str_red)}
      [] field = "visualPulse" -> {JsNum(0), JsNum(1)}
      [] field = "exhaustionTone" -> {JsUndefined, JsNum(216)}
      [] field = "exhaustionVibration" -> {JsUndefined, JsNum(10)}

RecordFields == {"metricId", "metricValue", "timestamp", "coherence", "exhaustion", "sources"}
TranslationFields ==
    {"audioFrequency", "hapticIntensity", "visualColor", "visualPulse", "exhaustionTone",
     "exhaustionVibration"}

\* record r with one field set to v
withField(r, field, v) ==
    IF field \in TranslationFields
    THEN [r EXCEPT !.translation = [@ EXCEPT ![field] = v]]
    ELSE [r EXCEPT ![field] = v]

fieldOf(r, field) ==
    IF field \in TranslationFields THEN r.translation[field] ELSE r[field]

\* the edits made to an exported JSON text
JsonEdits ==
    {"recordHash", "metricValue", "dropMetricId", "dropMetricValue", "dropTranslation",
     "dropTimestamp", "dropRecordHash", "translationString", "translationNumber",
     "malformed", "null", "number", "string", "array"}

editJson(doc, edit) ==
    CASE edit = "recordHash" -> [doc EXCEPT !.recordHash = JString(Str_deadbeef)]
      [] edit = "metricValue" -> [doc EXCEPT !.metricValue = JNumber(7)]
      [] edit = "dropMetricId" -> [doc EXCEPT !.metricId = JAbsent]
      [] edit = "dropMetricValue" -> [doc EXCEPT !.metricValue = JAbsent]
      [] edit = "dropTranslation" -> [doc EXCEPT !.translation = JAbsent]
      [] edit = "dropTimestamp" -> [doc EXCEPT !.timestamp = JAbsent]
      [] edit = "dropRecordHash" -> [doc EXCEPT !.recordHash = JAbsent]
      [] edit = "translationString" -> [doc EXCEPT !.translation = JString(Str_a)]
      [] edit = "translationNumber" -> [doc EXCEPT !.translation = JNumber(7)]
      [] edit = "malformed" -> Malformed
      [] edit = "null" -> JNull
      [] edit = "number" -> JNumber(7)
      [] edit = "string" -> JString(Str_a)
      [] edit = "array" -> JArray(<<Str_a>>)

\* the result of verifyOracleFeed or verifyHonestRecord, once it has been called
NotVerified == [called |-> FALSE, ret |-> FALSE]

IdleFeed == Feed(JsStr(""), JsStr(""), JsStr(""), JsNum(0), 0)

NoCoherence == [called |-> FALSE, value |-> 0]
NotScored == [called |-> FALSE, value |-> JsUndefined]
IdleDimensions == Dimensions(0, 0, 0, 0, 0, 0)

EigenIdle ==
    /\ dimensions = IdleDimensions
    /\ wsCoherence = NoCoherence
    /\ wsDecision = "none"
    /\ oracleCoherence = NoCoherence
    /\ oracleDecision = "none"

\* the dimension values the two coherence paths are run on; they hold the
\* scenario {price 0.9, volume 0.5, momentum 0.8, sentiment 0.7, temporal 0.1,
\* spatial 0.1}
PriceValues == {-900, 0, 200, 900}
VolumeValues == {-500, 200, 500}
MomentumValues == {-800, 200, 800}
SentimentValues == {-700, 200, 700}
TemporalValues == {-100, 100, 200}
SpatialValues == {-100, 100, 200}

\* the coherence and momentum values determineDecision is tried on, around its
\* thresholds
CoherenceGrid ==
    {-100000, -75000, -50001, -50000, -49999, -25000, 0, 25000, 49999, 50000, 50001,
     75000, 100000}
MomentumGrid == {-1000, -301, -300, -299, 0, 299, 300, 301, 1000}

\* the raw snapshots the normalizers are run on: a price of 0, below and
\* above it; a negative, a zero and two positive volumes; a falling, a flat and
\* a rising price; an absent, a negative, a zero and a positive market cap
MarketSnapshots ==
    {MarketData(JsNum(p), JsNum(v), JsNum(c), m) :
        p \in {-50000, 0, 98000}, v \in {-1000, 0, 1000, 30000}, c \in {-20, 0, 5},
        m \in {JsUndefined, JsNum(-500000), JsNum(0), JsNum(2000000)}}

\* the clock values the normalizers are run at
NormalizeClocks == {ClockStart, ClockStart + 31416, 5654867}

NotNormalized == [called |-> FALSE, value |-> IdleDimensions]

NormalizeIdle ==
    /\ marketData = MarketData(JsNum(0), JsNum(0), JsNum(0), JsUndefined)
    /\ wsDimensions = NotNormalized
    /\ oracleDimensions = NotNormalized

FeedIdle ==
    /\ feed = IdleFeed
    /\ feedValid = NotVerified
    /\ inputs = <<>>
    /\ metricResult = NotCalled
    /\ coherenceResult = NotScored

LedgerIdle ==
    /\ record = NoRecord
    /\ tampered = "none"
    /\ recordValid = NotVerified
    /\ json = NoJson
    /\ edited = "none"
    /\ imported = NotImported

-----------------------------------------------------------------------------
(* The eigenstate router (eigenstate.get, eigenstate.getMultiple) over its  *)
(* cache, and the oracle child process behind getEigenstateFromOracle       *)

CACHE_TTL == 5000

ORACLE_TIMEOUT_MS == 5000

\* How far the clock runs past ClockStart, and the steps it takes.
RouterHorizon == 10000

ClockSteps == {2500, 5000}

Calls == {1, 2}

RequestedAssets == {"btc", "BTC", "ETH"}

toUpperCase(asset) ==
    CASE asset = "btc" -> "BTC"
      [] asset = "eth" -> "ETH"
      [] OTHER -> asset

CacheKeys == {toUpperCase(a) : a \in RequestedAssets}

\* Eigenstate data, told apart by the asset, by where it came from (the oracle
\* or generateMockEigenstate) and by the call that obtained it.
EigenstateData(asset, origin, c) == [asset |-> asset, origin |-> origin, by |-> c]

NoData == EigenstateData("none", "none", 0)

\* archimedes is "present" (the six derived fields) or "undefined".
CachedEigenstate(data, timestamp, archimedes) ==
    [present |-> TRUE, data |-> data, timestamp |-> timestamp, archimedes |-> archimedes]

NoEntry == [present |-> FALSE, data |-> NoData, timestamp |-> 0, archimedes |-> "undefined"]

Response(data, source, archimedes) ==
    [success |-> TRUE, data |-> data, source |-> source, archimedes |-> archimedes]

NoResponse == [success |-> FALSE, data |-> NoData, source |-> "none", archimedes |-> "undefined"]

IdleCall == [procedure |-> "none", asset |-> "none", pc |-> "idle", response |-> NoResponse]

NoOracle == [started |-> 0, child |-> "none", timer |-> "none", outcome |-> "none"]

\* cached && Date.now() - cached.timestamp < CACHE_TTL, with <= in the mutant
cacheHitInclusive(cached, clock) == cached.present /\ clock - cached.timestamp <= CACHE_TTL

cacheHit(cached, clock) == cached.present /\ clock - cached.timestamp < CACHE_TTL

\* How the child can close: exit code 0 with a JSON object on stdout, code 0
\* with the text null, code 0 with text JSON.parse rejects, a non-zero code,
\* or killed by a signal (code null).
OwnExits == {"json", "jsonNull", "garbage", "nonzero"}

closeResult(exit) ==
    CASE exit = "json" -> "data"
      [] exit = "jsonNull" -> "nodata"
      [] OTHER -> "failure"

\* resolve(result): the first call settles the promise, later calls do nothing
resolve(o, result) == IF o.outcome = "pending" THEN [o EXCEPT !.outcome = result] ELSE o

RouterIdle ==
    /\ eigenstateCache = [k \in CacheKeys |-> NoEntry]
    /\ calls = [c \in Calls |-> IdleCall]
    /\ oracle = [c \in Calls |-> NoOracle]
    /\ crashed = FALSE

-----------------------------------------------------------------------------
(* The client's sensory engines: MultiSensoryEngine over the haptic control *)
(* board, the voice engine, the bell audio engine and the Web Audio engine  *)

\* Config flags hold what JavaScript put there: "true", "false" or "undefined".
truthy(v) == v = "true"

DefaultConfig ==
    [audioEnabled |-> "true", hapticEnabled |-> "false", voiceEnabled |-> "true",
     autoNarrate |-> "false", hapticIntensity |-> 500, useWebAudio |-> "true"]

\* BELLS[bellNumber].frequency
BELLS == <<432, 486, 540, 648, 378, 324, 216>>

MaxOscillators == 2

NewEngine == [config |-> DefaultConfig,
              lastCoherence |-> [isNull |-> TRUE, value |-> 0],
              isHapticInitialized |-> FALSE,
              initializing |-> FALSE]

NewHapticBoard(vibrate) ==
    [navigatorVibrate |-> vibrate, isSupported |-> FALSE, isPlaying |-> FALSE,
     intervalId |-> 0, baseIntensity |-> 500]

NewVoiceEngine == [autoNarrate |-> FALSE, speaking |-> FALSE]

NewAudioEngine ==
    [currentOscillator |-> 0, isPlaying |-> FALSE, currentFrequency |-> 432,
     oscillators |-> [o \in 1..MaxOscillators |-> "none"]]

NewWebAudioEngine == [isPlaying |-> FALSE]

SensoryIdle ==
    /\ engine = NewEngine
    /\ hapticBoard = NewHapticBoard(FALSE)
    /\ voiceEngine = NewVoiceEngine
    /\ audioEngine = NewAudioEngine
    /\ webAudioEngine = NewWebAudioEngine

\* HONESTHapticControlBoard.stop()
hapticStop(hb) == [hb EXCEPT !.isPlaying = FALSE, !.intervalId = 0]

\* HONESTHapticControlBoard.startLoop(audioFreq, marketMod)
hapticStartLoop(hb, audioFreq) ==
    IF ~hb.isSupported \/ hb.isPlaying THEN hb
    ELSE [hb EXCEPT !.isPlaying = TRUE, !.intervalId = 1]

\* HONESTHapticControlBoard.update(audioFreq, marketMod)
hapticUpdate(hb, audioFreq) ==
    IF hb.isPlaying THEN hapticStartLoop(hapticStop(hb), audioFreq) ELSE hb

\* The haptic branch of triggerEigenstateUpdate and triggerPattern, and the
\* same branch without the test of config.hapticEnabled.
hapticFeedbackUngated(e, hb, audioFreq) ==
    IF e.isHapticInitialized
    THEN LET updated == hapticUpdate(hb, audioFreq)
         IN  IF ~updated.isPlaying THEN hapticStartLoop(updated, audioFreq) ELSE updated
    ELSE hb

hapticFeedback(e, hb, audioFreq) ==
    IF truthy(e.config.hapticEnabled) /\ e.isHapticInitialized
    THEN LET updated == hapticUpdate(hb, audioFreq)
         IN  IF ~updated.isPlaying THEN hapticStartLoop(updated, audioFreq) ELSE updated
    ELSE hb

\* AudioEngine.stop(): the stopped oscillator keeps its onended handler and
\* its 'ended' event is still to come.
audioStop(ae) ==
    IF ae.currentOscillator # 0 /\ ae.isPlaying
    THEN [ae EXCEPT !.oscillators[ae.currentOscillator] = IF @ = "playing" THEN "stopped" ELSE @,
                    !.currentOscillator = 0,
                    !.isPlaying = FALSE]
    ELSE ae

\* AudioEngine.getBellFromCoherence(coherence), coherence in thousandths
getBellFromCoherence(coherence) ==
    IF coherence >= 700 THEN 4
    ELSE IF coherence >= 300 THEN 3
    ELSE IF coherence >= 100 THEN 2
    ELSE IF coherence >= -100 THEN 1
    ELSE IF coherence >= -300 THEN 5
    ELSE IF coherence >= -700 THEN 6
    ELSE 7

\* At most MaxOscillators oscillators are alive (playing, or stopped with
\* their 'ended' event still to come) at a time.
canCreateOscillator(ae) == \E o \in 1..MaxOscillators : ae.oscillators[o] = "none"

\* AudioEngine.playBell(bellNumber, duration)
playBell(ae, bellNumber) ==
    LET stopped == audioStop(ae)
        o == CHOOSE n \in 1..MaxOscillators :
                 /\ ae.oscillators[n] = "none"
                 /\ \A m \in 1..MaxOscillators : ae.oscillators[m] = "none" => n <= m
    IN  [stopped EXCEPT !.oscillators[o] = "playing",
                        !.currentOscillator = o,
                        !.currentFrequency = BELLS[bellNumber],
                        !.isPlaying = TRUE]

\* VoiceEngine.speak(text, interrupt) and VoiceEngine.stop()
speak(ve) == [ve EXCEPT !.speaking = TRUE]

voiceStop(ve) == [ve EXCEPT !.speaking = FALSE]

\* VoiceEngine.toggleAutoNarrate()
toggleAutoNarrate(ve) == [ve EXCEPT !.autoNarrate = ~@]

absDiff(a, b) == IF a >= b THEN a - b ELSE b - a

\* The Partial<MultiSensoryConfig> objects handed to setConfig: the keys that
\* are present, and their values.
Partial(keys, values) == [keys |-> keys, values |-> values]

Partials ==
    {Partial({}, DefaultConfig)}
    \cup {Partial({k}, [DefaultConfig EXCEPT ![k] = v]) :
              k \in {"voiceEnabled", "autoNarrate"}, v \in {"true", "false"}}
    \cup {Partial({"hapticEnabled"}, [DefaultConfig EXCEPT !.hapticEnabled = v]) :
              v \in {"true", "false", "undefined"}}

\* { ...this.config, ...config }
spread(config, partial) ==
    [k \in DOMAIN config |-> IF k \in partial.keys THEN partial.values[k] ELSE config[k]]

\* config.key !== undefined
given(partial, key) == key \in partial.keys /\ partial.values[key] # "undefined"

UpdateCoherences == {0, 800}

PatternBells == {1, 5}

RestIdle == RouterIdle /\ SensoryIdle

-----------------------------------------------------------------------------
(* Specification of the feed verifier: one feed, one call *)

InitVerify ==
    /\ now = ClockStart
    /\ feed \in FeedUniverse
    /\ feedValid = NotVerified
    /\ inputs = <<>>
    /\ metricResult = NotCalled
    /\ coherenceResult = NotScored
    /\ LedgerIdle
    /\ RestIdle
    /\ NormalizeIdle
    /\ EigenIdle

VerifyFeed ==
    /\ ~feedValid.called
    /\ feedValid' = [called |-> TRUE, ret |-> verifyOracleFeed(feed, now)]
    /\ UNCHANGED <<now, restVars, normalizeVars, feed, inputs, metricResult, coherenceResult, ledgerVars, eigenVars>>

NextVerify == VerifyFeed

SpecVerify == InitVerify /\ [][NextVerify]_vars

-----------------------------------------------------------------------------
(* Specification of the aggregator: a metric's inputs are collected, then *)
(* calculateHonestMetric is called on them                                *)

InitAggregate ==
    /\ now = ClockStart
    /\ FeedIdle
    /\ LedgerIdle
    /\ RestIdle
    /\ NormalizeIdle
    /\ EigenIdle

AddFeed ==
    /\ metricResult.kind = "none"
    /\ ~coherenceResult.called
    /\ Len(inputs) < MaxFeeds
    /\ \E f \in FeedPool : inputs' = Append(inputs, f)
    /\ UNCHANGED <<now, restVars, normalizeVars, feed, feedValid, metricResult, coherenceResult, ledgerVars,
                   eigenVars>>

Calculate ==
    /\ metricResult.kind = "none"
    /\ metricResult' = calculateHonestMetric(inputs, now)
    /\ UNCHANGED <<now, restVars, normalizeVars, feed, feedValid, inputs, coherenceResult, ledgerVars, eigenVars>>

CalculateCoherence ==
    /\ ~coherenceResult.called
    /\ coherenceResult' = [called |-> TRUE, value |-> calculateCoherence(inputs)]
    /\ UNCHANGED <<now, restVars, normalizeVars, feed, feedValid, inputs, metricResult, ledgerVars, eigenVars>>

NextAggregate == AddFeed \/ Calculate \/ CalculateCoherence

SpecAggregate == InitAggregate /\ [][NextAggregate]_vars

-----------------------------------------------------------------------------
(* Specification of the ledger: a record is created; it is then verified,  *)
(* changed in one field and verified, or exported, possibly edited as JSON *)
(* text, and imported                                                      *)

InitLedger ==
    /\ now = ClockStart
    /\ FeedIdle
    /\ LedgerIdle
    /\ RestIdle
    /\ NormalizeIdle
    /\ EigenIdle

CreateRecord ==
    /\ record = NoRecord
    /\ \E id \in MetricIds, mv \in MetricValues, tr \in Translations, c \in Coherences,
          e \in Exhaustions, src \in SourceLists :
            record' = createHonestRecord(id, mv, tr, c, e, src, now)
    /\ UNCHANGED <<now, restVars, normalizeVars, feedVars, eigenVars, tampered, recordValid, json, edited, imported>>

TamperRecord ==
    /\ record # NoRecord /\ tampered = "none"
    /\ ~recordValid.called /\ json = NoJson
    /\ \E field \in RecordFields \cup TranslationFields :
         \E v \in TamperValues(field) :
            /\ v # fieldOf(record, field)
            /\ record' = withField(record, field, v)
            /\ tampered' = field
    /\ UNCHANGED <<now, restVars, normalizeVars, feedVars, eigenVars, recordValid, json, edited, imported>>

VerifyRecord ==
    /\ record # NoRecord /\ ~recordValid.called /\ json = NoJson
    /\ recordValid' = [called |-> TRUE, ret |-> verifyHonestRecord(record)]
    /\ UNCHANGED <<now, restVars, normalizeVars, feedVars, eigenVars, record, tampered, json, edited, imported>>

ExportRecord ==
    /\ record # NoRecord /\ tampered = "none" /\ ~recordValid.called /\ json = NoJson
    /\ json' = exportRecordToJSON(record)
    /\ UNCHANGED <<now, restVars, normalizeVars, feedVars, eigenVars, record, tampered, recordValid, edited, imported>>

EditJson ==
    /\ json # NoJson /\ edited = "none" /\ ~imported.called
    /\ \E edit \in JsonEdits :
          /\ editJson(json, edit) # json
          /\ json' = editJson(json, edit)
          /\ edited' = edit
    /\ UNCHANGED <<now, restVars, normalizeVars, feedVars, eigenVars, record, tampered, recordValid, imported>>

ImportRecord ==
    /\ json # NoJson /\ ~imported.called
    /\ imported' = [called |-> TRUE, kind |-> importRecordFromJSON(json).kind,
                    value |-> importRecordFromJSON(json).value]
    /\ UNCHANGED <<now, restVars, normalizeVars, feedVars, eigenVars, record, tampered, recordValid, json, edited>>

NextLedger ==
    \/ CreateRecord
    \/ TamperRecord
    \/ VerifyRecord
    \/ ExportRecord
    \/ EditJson
    \/ ImportRecord

SpecLedger == InitLedger /\ [][NextLedger]_vars

-----------------------------------------------------------------------------
(* Specification of the two eigenstate paths on the same dimensions:       *)
(* fetchEigenstateData (WebSocket) computes calculateCoherence and then    *)
(* determineDecision; generateMockEigenstate (tRPC) computes the oracle    *)
(* module's calculateCoherence and then getDecision                        *)

InitEigen ==
    /\ now = ClockStart
    /\ FeedIdle
    /\ LedgerIdle
    /\ RestIdle
    /\ NormalizeIdle
    /\ dimensions \in {Dimensions(p, v, m, s, t, x) :
                          p \in PriceValues, v \in VolumeValues, m \in MomentumValues,
                          s \in SentimentValues, t \in TemporalValues, x \in SpatialValues}
    /\ wsCoherence = NoCoherence
    /\ wsDecision = "none"
    /\ oracleCoherence = NoCoherence
    /\ oracleDecision = "none"

WsCalculateCoherence ==
    /\ ~wsCoherence.called
    /\ wsCoherence' = [called |-> TRUE, value |-> wsCalculateCoherence(dimensions)]
    /\ UNCHANGED <<now, restVars, normalizeVars, feedVars, ledgerVars, dimensions, wsDecision, oracleCoherence,
                   oracleDecision>>

WsDetermineDecision ==
    /\ wsCoherence.called /\ wsDecision = "none"
    /\ wsDecision' = determineDecision(wsCoherence.value, dimensions)
    /\ UNCHANGED <<now, restVars, normalizeVars, feedVars, ledgerVars, dimensions, wsCoherence, oracleCoherence,
                   oracleDecision>>

OracleCalculateCoherence ==
    /\ ~oracleCoherence.called
    /\ oracleCoherence' = [called |-> TRUE, value |-> oracleCalculateCoherence(dimensions)]
    /\ UNCHANGED <<now, restVars, normalizeVars, feedVars, ledgerVars, dimensions, wsCoherence, wsDecision,
                   oracleDecision>>

OracleGetDecision ==
    /\ oracleCoherence.called /\ oracleDecision = "none"
    /\ oracleDecision' = getDecision(oracleCoherence.value)
    /\ UNCHANGED <<now, restVars, normalizeVars, feedVars, ledgerVars, dimensions, wsCoherence, wsDecision,
                   oracleCoherence>>

NextEigen ==
    \/ WsCalculateCoherence
    \/ WsDetermineDecision
    \/ OracleCalculateCoherence
    \/ OracleGetDecision

SpecEigen == InitEigen /\ [][NextEigen]_vars

-----------------------------------------------------------------------------
(* Specification of the normalizers: a raw snapshot is normalized by        *)
(* calculateDimensions and by calculateEigenstate                           *)

InitNormalize ==
    /\ now \in NormalizeClocks
    /\ FeedIdle
    /\ LedgerIdle
    /\ RestIdle
    /\ EigenIdle
    /\ marketData \in MarketSnapshots
    /\ wsDimensions = NotNormalized
    /\ oracleDimensions = NotNormalized

CalculateDimensions ==
    /\ ~wsDimensions.called
    /\ wsDimensions' = [called |-> TRUE, value |-> calculateDimensions(marketData, now)]
    /\ UNCHANGED <<now, restVars, feedVars, ledgerVars, eigenVars, marketData, oracleDimensions>>

CalculateEigenstate ==
    /\ ~oracleDimensions.called
    /\ oracleDimensions' =
          [called |-> TRUE,
           value |-> calculateEigenstate(marketData.price, marketData.volume_24h,
                                         marketData.price_change_24h,
                                         marketData.market_cap, now)]
    /\ UNCHANGED <<now, restVars, feedVars, ledgerVars, eigenVars, marketData, wsDimensions>>

NextNormalize == CalculateDimensions \/ CalculateEigenstate

SpecNormalize == InitNormalize /\ [][NextNormalize]_vars

-----------------------------------------------------------------------------
(* Specification of determineDecision alone, on coherence and momentum     *)
(* values around its thresholds                                            *)

InitDecide ==
    /\ now = ClockStart
    /\ FeedIdle
    /\ LedgerIdle
    /\ RestIdle
    /\ NormalizeIdle
    /\ dimensions \in {Dimensions(0, 0, m, 0, 0, 0) : m \in MomentumGrid}
    /\ wsCoherence \in {[called |-> TRUE, value |-> c] : c \in CoherenceGrid}
    /\ wsDecision = "none"
    /\ oracleCoherence = NoCoherence
    /\ oracleDecision = "none"

NextDecide == WsDetermineDecision

SpecDecide == InitDecide /\ [][NextDecide]_vars

-----------------------------------------------------------------------------
(* Specification of the eigenstate router: overlapping eigenstate.get calls *)
(* and getMultiple items, each split at its await of the oracle promise     *)

InitRouter ==
    /\ now = ClockStart
    /\ FeedIdle
    /\ LedgerIdle
    /\ EigenIdle
    /\ NormalizeIdle
    /\ eigenstateCache = [k \in CacheKeys |-> NoEntry]
    /\ calls = [c \in Calls |-> IdleCall]
    /\ oracle = [c \in Calls |-> NoOracle]
    /\ crashed = FALSE
    /\ SensoryIdle

\* getEigenstateFromOracle(asset) up to the return of its promise: spawn, the
\* listeners and setTimeout.
spawnOracle(clock) ==
    [started |-> clock, child |-> "running", timer |-> "armed", outcome |-> "pending"]

Awaiting(procedure, asset) ==
    [procedure |-> procedure, asset |-> asset, pc |-> "awaiting", response |-> NoResponse]

Returned_(procedure, asset, response) ==
    [procedure |-> procedure, asset |-> asset, pc |-> "returned", response |-> response]

\* A continuation whose promise has settled runs before the event loop takes
\* the next request, child event or timer.
microtasksDone ==
    \A c \in Calls :
        ~(calls[c].pc = "awaiting" /\ oracle[c].outcome \in {"data", "nodata", "failure"})

\* eigenstate.get up to its await: the cache check and, on a miss, the oracle call
Get(c, asset) ==
    LET assetUpper == toUpperCase(asset)
        cached == eigenstateCache[assetUpper]
    IN  /\ ~crashed
        /\ microtasksDone
        /\ calls[c].pc = "idle"
        /\ now + ORACLE_TIMEOUT_MS <= ClockStart + RouterHorizon
        /\ IF cacheHit(cached, now)
           THEN /\ calls' = [calls EXCEPT ![c] = Returned_("get", asset,
                       Response(cached.data, "cache", cached.archimedes))]
                /\ oracle' = oracle
           ELSE /\ calls' = [calls EXCEPT ![c] = Awaiting("get", asset)]
                /\ oracle' = [oracle EXCEPT ![c] = spawnOracle(now)]
        /\ UNCHANGED <<now, eigenstateCache, crashed, sensoryVars, feedVars, ledgerVars, eigenVars,
                       normalizeVars>>

\* eigenstate.get after its await: the oracle's data or the mock fallback,
\* either cached with its archimedes data
GetReturn(c) ==
    LET assetUpper == toUpperCase(calls[c].asset)
        source == IF oracle[c].outcome = "data" THEN "oracle" ELSE "mock"
        data == EigenstateData(assetUpper, source, c)
    IN  /\ ~crashed
        /\ calls[c].pc = "awaiting"
        /\ calls[c].procedure = "get"
        /\ oracle[c].outcome \in {"data", "nodata", "failure"}
        /\ eigenstateCache' = [eigenstateCache EXCEPT
               ![assetUpper] = CachedEigenstate(data, now, "present")]
        /\ calls' = [calls EXCEPT ![c] = Returned_("get", calls[c].asset,
               Response(data, source, "present"))]
        /\ UNCHANGED <<now, oracle, crashed, sensoryVars, feedVars, ledgerVars, eigenVars, normalizeVars>>

\* One item of eigenstate.getMultiple up to its await
GetMultipleItem(c, asset) ==
    LET assetUpper == toUpperCase(asset)
        cached == eigenstateCache[assetUpper]
    IN  /\ ~crashed
        /\ microtasksDone
        /\ calls[c].pc = "idle"
        /\ now + ORACLE_TIMEOUT_MS <= ClockStart + RouterHorizon
        /\ IF cacheHit(cached, now)
           THEN /\ calls' = [calls EXCEPT ![c] = Returned_("getMultiple", asset,
                       Response(cached.data, "cache", "undefined"))]
                /\ oracle' = oracle
           ELSE /\ calls' = [calls EXCEPT ![c] = Awaiting("getMultiple", asset)]
                /\ oracle' = [oracle EXCEPT ![c] = spawnOracle(now)]
        /\ UNCHANGED <<now, eigenstateCache, crashed, sensoryVars, feedVars, ledgerVars, eigenVars,
                       normalizeVars>>

\* One item of eigenstate.getMultiple after its await: the entry it caches has
\* no archimedes field
GetMultipleItemReturn(c) ==
    LET assetUpper == toUpperCase(calls[c].asset)
        source == IF oracle[c].outcome = "data" THEN "oracle" ELSE "mock"
        data == EigenstateData(assetUpper, source, c)
    IN  /\ ~crashed
        /\ calls[c].pc = "awaiting"
        /\ calls[c].procedure = "getMultiple"
        /\ oracle[c].outcome \in {"data", "nodata", "failure"}
        /\ eigenstateCache' = [eigenstateCache EXCEPT
               ![assetUpper] = CachedEigenstate(data, now, "undefined")]
        /\ calls' = [calls EXCEPT ![c] = Returned_("getMultiple", calls[c].asset,
               Response(data, source, "undefined"))]
        /\ UNCHANGED <<now, oracle, crashed, sensoryVars, feedVars, ledgerVars, eigenVars, normalizeVars>>

\* python.on('close', ...): a child that was killed may still close with its
\* own exit code when it had already exited.
ChildClose(c, exit) ==
    /\ ~crashed
    /\ microtasksDone
    /\ \/ oracle[c].child = "running" /\ exit \in OwnExits
       \/ oracle[c].child = "killed"
    /\ oracle' = [oracle EXCEPT ![c] =
           resolve([oracle[c] EXCEPT !.child = "closed"], closeResult(exit))]
    /\ UNCHANGED <<now, eigenstateCache, calls, crashed, sensoryVars, feedVars, ledgerVars, eigenVars,
                   normalizeVars>>

\* The setTimeout callback: python.kill() and resolve(timed out). The timer is
\* never cleared, so it also fires after the child has closed.
OracleTimeout(c) ==
    /\ ~crashed
    /\ microtasksDone
    /\ oracle[c].timer = "armed"
    /\ now - oracle[c].started >= ORACLE_TIMEOUT_MS
    /\ oracle' = [oracle EXCEPT ![c] =
           resolve([oracle[c] EXCEPT
                        !.timer = "fired",
                        !.child = IF @ = "running" THEN "killed" ELSE @],
                   "failure")]
    /\ UNCHANGED <<now, eigenstateCache, calls, crashed, sensoryVars, feedVars, ledgerVars, eigenVars,
                   normalizeVars>>

\* The child emits 'error' (python3 cannot be spawned) right after spawn. No
\* 'error' listener is registered, so the event is thrown as an uncaught
\* exception and ends the server process.
SpawnError(c) ==
    /\ ~crashed
    /\ microtasksDone
    /\ oracle[c].child = "running"
    /\ oracle[c].started = now
    /\ crashed' = TRUE
    /\ UNCHANGED <<now, eigenstateCache, calls, oracle, sensoryVars, feedVars, ledgerVars, eigenVars,
                   normalizeVars>>

\* Time passes, up to the next timer that is due.
Tick(step) ==
    /\ ~crashed
    /\ now + step <= ClockStart + RouterHorizon
    /\ microtasksDone
    /\ \A c \in Calls :
           oracle[c].timer = "armed" => now + step <= oracle[c].started + ORACLE_TIMEOUT_MS
    /\ now' = now + step
    /\ UNCHANGED <<routerVars, sensoryVars, feedVars, ledgerVars, eigenVars, normalizeVars>>

NextRouter ==
    \/ \E c \in Calls, asset \in RequestedAssets : Get(c, asset)
    \/ \E c \in Calls : GetReturn(c)
    \/ \E c \in Calls, asset \in RequestedAssets : GetMultipleItem(c, asset)
    \/ \E c \in Calls : GetMultipleItemReturn(c)
    \/ \E c \in Calls, exit \in OwnExits \cup {"signal"} : ChildClose(c, exit)
    \/ \E c \in Calls : OracleTimeout(c)
    \/ \E c \in Calls : SpawnError(c)
    \/ \E step \in ClockSteps : Tick(step)

SpecRouter == InitRouter /\ [][NextRouter]_vars

\* The event loop runs every handler that is ready and every timer that is due.
SpecRouterLive == SpecRouter /\ WF_vars(NextRouter)

-----------------------------------------------------------------------------
(* Specification of the sensory engines: calls of MultiSensoryEngine and    *)
(* the 'ended' events of the oscillators that playBell started              *)

InitSensory ==
    /\ now = ClockStart
    /\ FeedIdle
    /\ LedgerIdle
    /\ EigenIdle
    /\ NormalizeIdle
    /\ RouterIdle
    /\ engine = NewEngine
    /\ hapticBoard \in {NewHapticBoard(vibrate) : vibrate \in BOOLEAN}
    /\ voiceEngine = NewVoiceEngine
    /\ audioEngine = NewAudioEngine
    /\ webAudioEngine = NewWebAudioEngine

\* MultiSensoryEngine.setConfig(config)
SetConfig(partial) ==
    /\ engine' = [engine EXCEPT !.config = spread(engine.config, partial)]
    /\ voiceEngine' =
           LET stopped == IF given(partial, "voiceEnabled")
                             /\ ~truthy(partial.values.voiceEnabled)
                          THEN voiceStop(voiceEngine) ELSE voiceEngine
           IN  IF given(partial, "autoNarrate") THEN toggleAutoNarrate(stopped) ELSE stopped
    /\ hapticBoard' =
           LET configured == IF "hapticIntensity" \in partial.keys
                             THEN [hapticBoard EXCEPT
                                      !.baseIntensity = partial.values.hapticIntensity]
                             ELSE hapticBoard
           IN  IF "hapticEnabled" \in partial.keys /\ partial.values.hapticEnabled = "false"
               THEN hapticStop(configured) ELSE configured
    /\ UNCHANGED <<now, routerVars, feedVars, ledgerVars, eigenVars, normalizeVars,
                   audioEngine, webAudioEngine>>

\* MultiSensoryEngine.triggerEigenstateUpdate(data), data.coherence in thousandths
TriggerEigenstateUpdate(coherence) ==
    LET config == engine.config
        bells == truthy(config.audioEnabled) /\ ~truthy(config.useWebAudio)
        last == engine.lastCoherence
    IN  /\ bells => canCreateOscillator(audioEngine)
        /\ webAudioEngine' =
               IF truthy(config.audioEnabled) /\ truthy(config.useWebAudio)
               THEN [webAudioEngine EXCEPT !.isPlaying = TRUE] ELSE webAudioEngine
        /\ audioEngine' =
               IF bells THEN playBell(audioEngine, getBellFromCoherence(coherence))
               ELSE audioEngine
        /\ hapticBoard' = hapticFeedback(engine, hapticBoard, audioEngine'.currentFrequency)
        /\ voiceEngine' =
               IF ~truthy(config.voiceEnabled) THEN voiceEngine
               ELSE IF truthy(config.autoNarrate) THEN speak(voiceEngine)
               ELSE IF ~last.isNull /\ absDiff(coherence, last.value) > 150
                    THEN speak(voiceEngine)
               ELSE voiceEngine
        /\ engine' = [engine EXCEPT !.lastCoherence = [isNull |-> FALSE, value |-> coherence]]
        /\ UNCHANGED <<now, routerVars, feedVars, ledgerVars, eigenVars, normalizeVars>>

\* MultiSensoryEngine.triggerPattern(bellNumber, description)
TriggerPattern(bellNumber, described) ==
    LET config == engine.config
    IN  /\ truthy(config.audioEnabled) => canCreateOscillator(audioEngine)
        /\ audioEngine' =
               IF truthy(config.audioEnabled) THEN playBell(audioEngine, bellNumber)
               ELSE audioEngine
        /\ hapticBoard' = hapticFeedback(engine, hapticBoard, audioEngine'.currentFrequency)
        /\ voiceEngine' =
               IF truthy(config.voiceEnabled) /\ described THEN speak(voiceEngine)
               ELSE voiceEngine
        /\ UNCHANGED <<now, routerVars, feedVars, ledgerVars, eigenVars, normalizeVars,
                       engine, webAudioEngine>>

\* MultiSensoryEngine.initializeHaptics() up to its await: hapticBoard.initialize()
InitializeHaptics ==
    /\ IF engine.isHapticInitialized
       THEN UNCHANGED <<engine, hapticBoard>>
       ELSE /\ hapticBoard' = [hapticBoard EXCEPT
                   !.isSupported = IF hapticBoard.navigatorVibrate THEN TRUE ELSE @]
            /\ engine' = [engine EXCEPT !.initializing = TRUE]
    /\ UNCHANGED <<now, routerVars, feedVars, ledgerVars, eigenVars, normalizeVars,
                   voiceEngine, audioEngine, webAudioEngine>>

\* MultiSensoryEngine.initializeHaptics() after its await
InitializeHapticsResume ==
    /\ engine.initializing
    /\ engine' = [engine EXCEPT !.isHapticInitialized = TRUE, !.initializing = FALSE]
    /\ UNCHANGED <<now, routerVars, feedVars, ledgerVars, eigenVars, normalizeVars,
                   hapticBoard, voiceEngine, audioEngine, webAudioEngine>>

\* MultiSensoryEngine.stopAll()
StopAll ==
    /\ audioEngine' = audioStop(audioEngine)
    /\ webAudioEngine' = [webAudioEngine EXCEPT !.isPlaying = FALSE]
    /\ hapticBoard' = hapticStop(hapticBoard)
    /\ voiceEngine' = voiceStop(voiceEngine)
    /\ UNCHANGED <<now, routerVars, feedVars, ledgerVars, eigenVars, normalizeVars, engine>>

\* The onended handler that playBell gave oscillator o, run when the tone has
\* run out or after stop() has stopped it.
OscillatorEnded(o) ==
    /\ audioEngine.oscillators[o] \in {"playing", "stopped"}
    /\ audioEngine' = [audioEngine EXCEPT !.oscillators[o] = "none",
                                          !.isPlaying = FALSE,
                                          !.currentOscillator = 0]
    /\ UNCHANGED <<now, routerVars, feedVars, ledgerVars, eigenVars, normalizeVars,
                   engine, hapticBoard, voiceEngine, webAudioEngine>>

NextSensory ==
    \/ \E partial \in Partials : SetConfig(partial)
    \/ \E coherence \in UpdateCoherences : TriggerEigenstateUpdate(coherence)
    \/ \E bellNumber \in PatternBells, described \in BOOLEAN : TriggerPattern(bellNumber, described)
    \/ InitializeHaptics
    \/ InitializeHapticsResume
    \/ StopAll
    \/ \E o \in 1..MaxOscillators : OscillatorEnded(o)

SpecSensory == InitSensory /\ [][NextSensory]_vars

-----------------------------------------------------------------------------
(* Claims about the feed verifier and the aggregator *)

NonEmptyString(v) == v.t = "string" /\ v.s # ""

\* C1: verifyOracleFeed returns true exactly when the feed is less than 60000 ms
\* old, its value is a finite number greater than 0, and source, asset and
\* metric are non-empty strings; for every other feed it returns false.
C1_VerifyIffFreshFinitePositive ==
    feedValid.called =>
        (feedValid.ret <=>
            /\ now - feed.timestamp < 60000
            /\ IsFinite(feed.value) /\ feed.value.n > 0
            /\ NonEmptyString(feed.source)
            /\ NonEmptyString(feed.asset)
            /\ NonEmptyString(feed.metric))

\* the values of the feeds of the inputs that pass verification, ascending
VerifiedValuesAscending == sortAscending(mapValues(filterVerified(inputs, now)))

\* twice the median of an ascending sequence: twice the middle value for an odd
\* count, the sum of the two middle values for an even count
TwiceMedian(vs) ==
    IF Len(vs) % 2 = 1
    THEN JsAdd(vs[(Len(vs) + 1) \div 2], vs[(Len(vs) + 1) \div 2])
    ELSE JsAdd(vs[Len(vs) \div 2], vs[(Len(vs) \div 2) + 1])

\* C2: with two or more verified feeds the consensus value is the median of
\* their values: the middle value for an odd count, the mean of the two middle
\* values for an even count ([100, 102, 101, 5000] gives 101.5).
C2_ConsensusIsMedian ==
    (metricResult.kind # "none" /\ Len(VerifiedValuesAscending) >= 2) =>
        /\ metricResult.kind = "return"
        /\ JsAdd(metricResult.value, metricResult.value)
               = TwiceMedian(VerifiedValuesAscending)

\* C10: aggregating an empty inputs list fails with EmptyInputError and returns
\* no number.
C10_EmptyInputsFail ==
    (metricResult.kind # "none" /\ Len(inputs) = 0) =>
        /\ metricResult.kind = "throw"
        /\ metricResult.error = "EmptyInputError"

\* the positions of the inputs whose feed passes verifyOracleFeed
VerifiedPositions == {i \in 1..Len(inputs) : verifyOracleFeed(inputs[i], now)}

NonVerifyingRemoved == SelectSeq(inputs, LAMBDA f : verifyOracleFeed(f, now))

\* C12: a feed that fails verification is treated as absent and not as an
\* error: with at least one verifying feed in the inputs, calculateHonestMetric
\* does not fail and returns the consensus value it returns for the inputs with
\* all non-verifying feeds removed.
C12_NonVerifyingFeedsAbsent ==
    (metricResult.kind # "none" /\ VerifiedPositions # {}) =>
        /\ metricResult.kind = "return"
        /\ metricResult = calculateHonestMetric(NonVerifyingRemoved, now)

\* a stale feed (timestamp = now - 120000) sits among verifying feeds
C12_Witness ==
    /\ metricResult.kind = "return"
    /\ Cardinality(VerifiedPositions) >= 2
    /\ \E i \in 1..Len(inputs) : inputs[i].timestamp = now - 120000
    /\ Len(NonVerifyingRemoved) < Len(inputs)

\* the positions of the verified feeds whose value no verified feed exceeds
LargestVerifiedPositions ==
    {i \in VerifiedPositions :
        \A j \in VerifiedPositions : ~JsGt(inputs[j].value, inputs[i].value)}

\* values larger than v that a manipulated source may report
LargerValues(v) ==
    IF IsFinite(v) THEN {JsNum(v.n + 1), JsNum(v.n + OutlierStep), JsInf} ELSE {}

\* the inputs with the value of the feed at position i replaced by w
withValue(i, w) == [inputs EXCEPT ![i].value = w]

\* C20: once at least three feeds pass verification, replacing the single
\* largest value by any larger value leaves the consensus value returned by
\* calculateHonestMetric unchanged.
C20_LargestValueIrrelevant ==
    (metricResult.kind # "none" /\ Cardinality(VerifiedPositions) >= 3) =>
        \A i \in LargestVerifiedPositions :
            \A w \in LargerValues(inputs[i].value) :
                calculateHonestMetric(withValue(i, w), now) = metricResult

\* three verified feeds with distinct finite values, so that a largest value
\* exists and is replaced
C20_Witness ==
    /\ metricResult.kind = "return"
    /\ Cardinality(VerifiedPositions) >= 3
    /\ \E i \in LargestVerifiedPositions :
          /\ LargerValues(inputs[i].value) # {}
          /\ \A j \in VerifiedPositions \ {i} : JsGt(inputs[i].value, inputs[j].value)

-----------------------------------------------------------------------------
(* Claims about the agreement score of HONEST-CORE *)

\* C13: only feeds that pass verifyOracleFeed count toward the agreement score:
\* calculateCoherence(L) equals the coherence computed over the sub-list of L
\* that passes verification, so a stale or non-positive feed cannot change the
\* score.
C13_OnlyVerifiedFeedsScore ==
    coherenceResult.called =>
        coherenceResult.value = calculateCoherence(NonVerifyingRemoved)

\* C14: when exactly one feed passes verification, the consensus value is
\* exactly that feed's value and the agreement score is exactly 1.0, whatever
\* the value and however many non-verifying feeds accompany it.
C14_SingleVerifiedFeed ==
    (metricResult.kind # "none" /\ coherenceResult.called
        /\ Cardinality(VerifiedPositions) = 1) =>
        /\ \A i \in VerifiedPositions : metricResult = Returned(inputs[i].value)
        /\ coherenceResult.value = roundFloat(1, 0)

\* the sum of the values of a list of finite-valued feeds, and of their squares
sumOfValues(fs) == sumSeq([i \in 1..Len(fs) |-> fs[i].value.n])
sumOfSquares(fs) == sumSeq([i \in 1..Len(fs) |-> fs[i].value.n * fs[i].value.n])

allFinite(fs) == \A i \in 1..Len(fs) : IsFinite(fs[i].value)

\* S1 / n1 = S2 / n2
sameMean(fs, gs) == sumOfValues(fs) * Len(gs) = sumOfValues(gs) * Len(fs)

\* for lists of the same mean, the population standard deviation of fs is the
\* larger one exactly if its mean square is
largerStdDev(fs, gs) == sumOfSquares(fs) * Len(gs) > sumOfSquares(gs) * Len(fs)

\* the feed lists the inputs are compared with
ComparisonLists == {<<f, g>> : f \in FeedPool, g \in FeedPool}

\* C15: for two or more feeds the agreement score never goes below 0, and for
\* two feed lists with the same mean the one with the larger standard deviation
\* never gets the higher score.
C15_ScoreFallsWithDispersion ==
    (coherenceResult.called /\ Len(inputs) >= 2 /\ allFinite(inputs)) =>
        /\ ~floatLess(coherenceResult.value, Float(0, 0))
        /\ \A other \in ComparisonLists :
              (allFinite(other) /\ sameMean(other, inputs)) =>
                  /\ largerStdDev(other, inputs) =>
                        ~floatLess(coherenceResult.value, calculateCoherence(other))
                  /\ largerStdDev(inputs, other) =>
                        ~floatLess(calculateCoherence(other), coherenceResult.value)

\* C16: when the mean of the feed values is zero (including the case where all
\* values are zero), calculateCoherence returns exactly 0 and never NaN or an
\* infinite value.
C16_ZeroMeanScoresZero ==
    (coherenceResult.called /\ Len(inputs) >= 2 /\ allFinite(inputs)
        /\ sumOfValues(inputs) = 0) =>
        coherenceResult.value = Float(0, 0)

\* C17: every coherence value the system computes lies in [-1, 1]: the
\* feed-dispersion score, the weighted-sum score and the alignment score, for
\* every input those functions accept.
C17_CoherenceInRange ==
    /\ coherenceResult.called =>
          /\ coherenceResult.value.k = "fin"
          /\ ~floatLess(coherenceResult.value, roundFloat(-1, 0))
          /\ ~floatLess(roundFloat(1, 0), coherenceResult.value)
    /\ wsCoherence.called =>
          (wsCoherence.value >= -100000 /\ wsCoherence.value <= 100000)
    /\ oracleCoherence.called =>
          (oracleCoherence.value >= -100000 /\ oracleCoherence.value <= 100000)

\* the inputs in the order given by the permutation p of their positions
permuted(p) == [i \in 1..Len(inputs) |-> inputs[p[i]]]

\* C21: at a fixed clock, aggregation is independent of input order: for any
\* feed list and any permutation of it, calculateHonestMetric returns the same
\* consensus value and calculateCoherence returns the same score.
C21_OrderIndependent ==
    \A p \in Permutations(1..Len(inputs)) :
        /\ metricResult.kind # "none" =>
              calculateHonestMetric(permuted(p), now) = metricResult
        /\ coherenceResult.called =>
              calculateCoherence(permuted(p)) = coherenceResult.value

-----------------------------------------------------------------------------
(* Claims about the normalizers *)

\* every one of the six dimensions is a number in [-1, 1]
dimensionsInRange(d) ==
    \A i \in 1..6 :
        /\ IsFinite(dimensionValues(d)[i])
        /\ dimensionValues(d)[i].n >= -1000
        /\ dimensionValues(d)[i].n <= 1000

\* C18: for every raw market snapshot (any price, price-change percentage,
\* volume and market cap, including zero and negative volume or market cap, at
\* any clock value), each of the six produced dimensions is a number in
\* [-1, 1].
C18_DimensionsInRange ==
    /\ wsDimensions.called => dimensionsInRange(wsDimensions.value)
    /\ oracleDimensions.called => dimensionsInRange(oracleDimensions.value)

\* a negative amount replaced by 0
clipNegative(v) == IF IsFinite(v) /\ v.n < 0 THEN JsNum(0) ELSE v

\* the snapshot with its negative volume and negative market cap replaced by 0
clipped(md) ==
    [md EXCEPT !.volume_24h = clipNegative(@), !.market_cap = clipNegative(@)]

\* C19: negative volume and negative market cap are clipped to 0 before the
\* transform: normalizing a snapshot with a negative volume or market cap
\* gives the same dimensions as normalizing the same snapshot with that input
\* replaced by 0.
C19_NegativeInputsClipped ==
    /\ wsDimensions.called =>
          wsDimensions.value = calculateDimensions(clipped(marketData), now)
    /\ oracleDimensions.called =>
          oracleDimensions.value =
              calculateEigenstate(clipped(marketData).price,
                                  clipped(marketData).volume_24h,
                                  clipped(marketData).price_change_24h,
                                  clipped(marketData).market_cap, now)

-----------------------------------------------------------------------------
(* Claims about the ledger *)

\* C3: changing any single field of a created record other than recordHash
\* (metricId, metricValue, timestamp, coherence, exhaustion, sources, or any
\* field of translation) makes verifyHonestRecord return false.
C3_AnyFieldChangeDetected ==
    (recordValid.called /\ tampered # "none") => ~recordValid.ret

\* C4: the record createHonestRecord returns, for every combination of
\* arguments with the optional ones present or absent, passes
\* verifyHonestRecord.
C4_CreatedRecordVerifies ==
    (recordValid.called /\ tampered = "none") => recordValid.ret

C4_Witness ==
    /\ recordValid.called /\ tampered = "none" /\ recordValid.ret
    /\ record.coherence = JsUndefined /\ record.sources # JsUndefined

RequiredMembers == {"metricId", "metricValue", "translation", "timestamp", "recordHash"}

\* C5: importRecordFromJSON returns a record only if the parsed object has all
\* required fields and verifyHonestRecord holds for it; the JSON of a valid
\* record whose recordHash was edited to another string is rejected with null.
C5_ImportOnlyVerified ==
    imported.called =>
        /\ imported.value # JsNull =>
              /\ \A m \in RequiredMembers : json[m].j # "absent"
              /\ verifyHonestRecord(JSONparse(json))
        /\ edited = "recordHash" => imported.value = JsNull

C5_Witness ==
    /\ imported.called /\ edited = "recordHash" /\ imported.value = JsNull
    /\ verifyHonestRecord(record) /\ ~falsy(record.metricValue) /\ ~falsy(record.metricId)

\* C6: importRecordFromJSON(exportRecordToJSON(r)) returns a record whose fields
\* equal those of r, for every record r that createHonestRecord produces
\* (metricValue = 0 and absent optional fields included).
C6_ExportImportRoundTrip ==
    (imported.called /\ edited = "none") => imported.value = record

\* C22: importRecordFromJSON never raises: for a text that is not JSON, for the
\* JSON literals null, number, string and array, for an object with missing
\* fields, for a translation that is not an object and for a hash mismatch it
\* returns null.
C22_ImportNeverRaises ==
    imported.called =>
        /\ imported.kind = "return"
        /\ edited # "none" => imported.value = JsNull

C22_Witness ==
    /\ imported.called /\ imported.kind = "return" /\ imported.value = JsNull
    /\ edited \in {"malformed", "null"}

-----------------------------------------------------------------------------
(* Claims about coherence and decision *)

\* C7: the decision is BUY exactly when c > 0.5 and m > 0.3, SELL exactly when
\* c < -0.5 and m < -0.3, HOLD in every other case; c = 0.5, c = -0.5, m = 0.3
\* and m = -0.3 give HOLD, and BUY and SELL are never both applicable.
C7_DecisionThresholds ==
    wsDecision # "none" =>
        LET c == wsCoherence.value
            m == dimensions.momentum
            buy == c > 50000 /\ m > 300
            sell == c < -50000 /\ m < -300
        IN  /\ wsDecision = "BUY" <=> buy
            /\ wsDecision = "SELL" <=> sell
            /\ wsDecision = "HOLD" <=> (~buy /\ ~sell)
            /\ ~(buy /\ sell)
            /\ (c = 50000 \/ c = -50000 \/ m = 300 \/ m = -300) => wsDecision = "HOLD"

C7_Witness ==
    /\ wsDecision = "HOLD"
    /\ wsCoherence.value = 50000 /\ dimensions.momentum = 1000

ScenarioDimensions == Dimensions(900, 500, 800, 700, 100, 100)

\* 0.25 price + 0.25 momentum + 0.15 volume + 0.15 sentiment + 0.10 temporal
\* + 0.10 spatial, clamped to [-1, 1]
WeightedSum(d) ==
    Max(-100000,
        Min(100000,
            25 * d.price + 25 * d.momentum + 15 * d.volume + 15 * d.sentiment
              + 10 * d.temporal + 10 * d.spatial))

WeightsSumToOne ==
    weights.price + weights.momentum + weights.volume + weights.sentiment
      + weights.temporal + weights.spatial = 100

\* C8 as stated: the weighted coherence is 0.25 price + 0.25 momentum
\* + 0.15 volume + 0.15 sentiment + 0.10 temporal + 0.10 spatial (weights summing
\* to 1.0) clamped to [-1, 1]; for {price 0.9, volume 0.5, momentum 0.8,
\* sentiment 0.7, temporal 0.1, spatial 0.1} the result is 0.635 and the decision
\* is BUY.
C8_ScenarioIs0635 ==
    wsCoherence.called =>
        /\ WeightsSumToOne
        /\ wsCoherence.value = WeightedSum(dimensions)
        /\ dimensions = ScenarioDimensions => wsCoherence.value = 63500
        /\ (dimensions = ScenarioDimensions /\ wsDecision # "none") => wsDecision = "BUY"

\* C8 as amended: the same weighted sum, clamped to [-1, 1]; for the scenario
\* dimensions the result is 0.625 and the decision is BUY.
C8_ScenarioIs0625 ==
    wsCoherence.called =>
        /\ WeightsSumToOne
        /\ wsCoherence.value = WeightedSum(dimensions)
        /\ wsCoherence.value >= -100000 /\ wsCoherence.value <= 100000
        /\ dimensions = ScenarioDimensions => wsCoherence.value = 62500
        /\ (dimensions = ScenarioDimensions /\ wsDecision # "none") => wsDecision = "BUY"

C8_Witness ==
    /\ dimensions = ScenarioDimensions
    /\ wsCoherence.called /\ wsCoherence.value = 62500
    /\ wsDecision = "BUY"

\* C9: for the same six dimension values the decision of the tRPC/oracle path
\* (calculateCoherence, then getDecision) equals the decision of the WebSocket
\* path (calculateCoherence, then determineDecision).
C9_PathsAgree ==
    (wsDecision # "none" /\ oracleDecision # "none") => wsDecision = oracleDecision

-----------------------------------------------------------------------------
(* Claims about the eigenstate router and the oracle call *)

\* C23: the cache is keyed by the upper-cased asset with a TTL of 5000 ms. An
\* eigenstate.get for an asset whose entry is younger than 5000 ms returns that
\* entry's data with source 'cache', starts no oracle call and leaves the
\* cache unchanged; otherwise it starts a recomputation, and when it returns it
\* has replaced the entry of its own asset and of no other.
C23_CacheHitOrRecompute ==
    [][\A c \in Calls :
          LET A == toUpperCase(calls'[c].asset)
              entry == eigenstateCache[A]
              fresh == entry.present /\ now - entry.timestamp < 5000
          IN  /\ (calls[c].pc = "idle" /\ calls'[c].pc # "idle" /\ calls'[c].procedure = "get")
                 => IF fresh
                    THEN /\ calls'[c].pc = "returned"
                         /\ calls'[c].response.success
                         /\ calls'[c].response.data = entry.data
                         /\ calls'[c].response.source = "cache"
                         /\ oracle' = oracle
                         /\ eigenstateCache' = eigenstateCache
                    ELSE /\ calls'[c].pc = "awaiting"
                         /\ oracle[c].child = "none"
                         /\ oracle'[c].child = "running"
              /\ (calls[c].pc = "awaiting" /\ calls'[c].pc = "returned"
                      /\ calls'[c].procedure = "get")
                 => /\ eigenstateCache'[A].present
                    /\ eigenstateCache'[A].data = calls'[c].response.data
                    /\ eigenstateCache'[A].timestamp = now
                    /\ calls'[c].response.source \in {"oracle", "mock"}
                    /\ \A k \in CacheKeys \ {A} : eigenstateCache'[k] = eigenstateCache[k]
      ]_vars

\* A get for "btc" was answered from the entry that a call for "BTC" had
\* cached from the oracle's data.
C23_Witness ==
    \E c \in Calls, d \in Calls :
        /\ calls[c].procedure = "get"
        /\ calls[c].asset = "btc"
        /\ calls[c].response.source = "cache"
        /\ calls[d].asset = "BTC"
        /\ calls[c].response.data = EigenstateData("BTC", "oracle", d)

\* C24: every eigenstate.get call eventually returns a response with success
\* true and eigenstate data; when the oracle call fails or times out the
\* response is the mock fallback, never a stall or an error.
C24_GetEventuallyReturns ==
    \A c \in Calls :
        (calls[c].procedure = "get" /\ calls[c].pc = "awaiting")
            ~> (/\ calls[c].pc = "returned"
                /\ calls[c].response.success
                /\ calls[c].response.data # NoData
                /\ oracle[c].outcome # "data" => calls[c].response.source = "mock")

\* C26: every getEigenstateFromOracle call resolves, no later than 5 seconds
\* after it started, with one outcome: whichever of the child's close and the
\* timer comes first fixes it, and nothing that comes later changes it.
C26_OracleResolvesOnce ==
    /\ \A c \in Calls :
           oracle[c].outcome = "pending" ~> oracle[c].outcome \in {"data", "nodata", "failure"}
    /\ [](\A c \in Calls :
           oracle[c].outcome = "pending" => now - oracle[c].started <= 5000)
    /\ [][\A c \in Calls :
             oracle[c].outcome \in {"data", "nodata", "failure"}
                 => oracle'[c].outcome = oracle[c].outcome]_vars

\* C27: for one asset at most one oracle invocation is in flight at any time:
\* a call for an asset that arrives while an earlier call's fetch for the same
\* asset has not completed starts no second oracle process.
C27_OneOracleInFlightPerAsset ==
    \A c \in Calls, d \in Calls :
        (/\ c # d
         /\ oracle[c].outcome = "pending"
         /\ oracle[d].outcome = "pending")
            => toUpperCase(calls[c].asset) # toUpperCase(calls[d].asset)

\* C28: every response of eigenstate.get carries archimedes data, also when
\* it is served from an entry that getMultiple wrote.
C28_GetCarriesArchimedes ==
    \A c \in Calls :
        (calls[c].procedure = "get" /\ calls[c].pc = "returned")
            => calls[c].response.archimedes = "present"

-----------------------------------------------------------------------------
(* Claims about the sensory engines *)

\* C25: haptic feedback is off by default and under the user's control. On a
\* new MultiSensoryEngine no call starts a haptic loop unless setConfig has
\* set hapticEnabled to true and has not set it to false since, and setting
\* hapticEnabled to false stops a running loop: a loop never runs while
\* hapticEnabled is false.
C25_HapticOffByDefault ==
    /\ [](hapticBoard.isPlaying => engine.config.hapticEnabled # "false")
    /\ [][(~hapticBoard.isPlaying /\ hapticBoard'.isPlaying)
              => engine.config.hapticEnabled = "true"]_vars
    /\ [][(engine.config.hapticEnabled # "false" /\ engine'.config.hapticEnabled = "false")
              => (~hapticBoard'.isPlaying /\ hapticBoard'.intervalId = 0)]_vars

\* A haptic loop is running on an engine whose user enabled haptics.
C25_Witness ==
    /\ hapticBoard.isPlaying
    /\ hapticBoard.intervalId # 0
    /\ engine.isHapticInitialized
    /\ engine.config.hapticEnabled = "true"

\* C29: while an oscillator started by playBell is sounding, isPlaying is true
\* and currentOscillator refers to it, also after the 'ended' callback of an
\* oscillator that playBell interrupted, so that stop() silences it.
C29_EngineTracksSoundingTone ==
    \A o \in 1..MaxOscillators :
        audioEngine.oscillators[o] = "playing"
            => (audioEngine.isPlaying /\ audioEngine.currentOscillator = o)

\* C30: after any sequence of setConfig calls on a fresh engine,
\* config.autoNarrate equals the voice engine's auto-narration flag.
C30_AutoNarrateInSync ==
    (engine.config.autoNarrate = "true") <=> voiceEngine.autoNarrate

====
